---------------------------- MODULE Spec2Model ----------------------------
(***************************************************************************)
(* Bit-level model of the RISC-V numeric-ops simulator (src/src/core).     *)
(*                                                                         *)
(* A Bits value (std::vector<uint8_t>, LSB first) is a TLA+ sequence of    *)
(* 0/1; the code's index i is the sequence index i + 1.                    *)
(*                                                                         *)
(* The code fixes the word width at 32.  TLC's integers are 32-bit, so a   *)
(* 64-bit product or the value 2^32 cannot be written down as a TLC value. *)
(* The model is therefore parametric in the word width XLEN: every         *)
(* literal 32 of the code is XLEN, every 64 is 2*XLEN, 0x80000000 is the   *)
(* pattern with only bit XLEN-1 set and 0xFFFFFFFF is the all-ones         *)
(* pattern.  The algorithms are the code's, bit for bit.  The ALU and the   *)
(* shifter take the width as a parameter: XLEN in their own machines, the  *)
(* code's 32 where the CPU's instructions are compared with them.          *)
(***************************************************************************)
EXTENDS Integers, Sequences, FiniteSets, TLC

(* ------------------------------ bounds -------------------------------- *)

\* Word width of the model (32 in the code).
XLEN == 5

\* Longest digit string (after the optional prefix) given to bv_from_hex_string.
MaxHexLen == 3

\* Widest bit vector given to twos_negate.
MaxNegWidth == 6

\* Bytes of memory of the CpuState under test (1024 by default in the code).
MemSize == 12

\* Most calls of step on one CpuState.
MaxSteps == 3

\* Largest shift amount given to shifter_execute.
MaxShamt == 11

\* The float format of the model: EXP_BITS exponent bits (8 in the code) and
\* FRAC_BITS fraction bits (23 in the code) under one sign bit.  Every literal
\* of f32.cpp is written in terms of the two: 32 is F32_BITS, 24 is SIG_BITS,
\* 48 is 2*SIG_BITS, 9 is EXP_BITS + 1, 127 is the bias 2^(EXP_BITS-1) - 1,
\* 382 is all-ones + bias and 0x7fc00000 is the quiet NaN pattern.
EXP_BITS == 3
FRAC_BITS == 2

VARIABLES pc, args, ret

vars == <<pc, args, ret>>

(* ----------------------------- bit helpers ---------------------------- *)

Bit == {0, 1}

\* C++ ^, & and | on single bits
Xor(x, y) == (x + y) % 2
And(x, y) == x * y
Or(x, y) == IF x + y > 0 THEN 1 ELSE 0

\* Bits(n, v): n copies of v (the std::vector fill constructor)
RECURSIVE Fill(_, _)
Fill(n, v) == IF n = 0 THEN <<>> ELSE Append(Fill(n - 1, v), v)

\* every bit of b XORed with 1 (the loops "bit ^= 1", "inv[i] = v[i] ^ 1")
RECURSIVE Invert(_)
Invert(b) == IF Len(b) = 0 THEN <<>> ELSE <<Xor(b[1], 1)>> \o Invert(Tail(b))

\* every Bits value of width w
RECURSIVE BitsOfWidth(_)
BitsOfWidth(w) ==
    IF w = 0 THEN {<<>>}
    ELSE {Append(s, x) : s \in BitsOfWidth(w - 1), x \in Bit}

Word == BitsOfWidth(XLEN)

\* 1 << n
RECURSIVE Pow2(_)
Pow2(n) == IF n = 0 THEN 1 ELSE 2 * Pow2(n - 1)

(* ------------------------------ bitvec.cpp ---------------------------- *)

RECURSIVE trim_leading_loop(_, _)
trim_leading_loop(b, i) ==
    IF i > 1 /\ b[i] = 0 THEN trim_leading_loop(b, i - 1) ELSE i

trim_leading(b_in) ==
    IF Len(b_in) = 0 THEN <<0>>
    ELSE SubSeq(b_in, 1, trim_leading_loop(b_in, Len(b_in)))

bv_pad_left(b, width, fill) ==
    IF Len(b) >= width THEN SubSeq(b, 1, width)
    ELSE b \o Fill(width - Len(b), fill)

\* hi and lo are the code's 0-based indices
bv_slice(b, hi_inclusive, lo_inclusive) ==
    IF lo_inclusive > hi_inclusive THEN "invalid_argument"
    ELSE IF hi_inclusive >= Len(b) THEN "out_of_range"
    ELSE SubSeq(b, lo_inclusive + 1, hi_inclusive + 1)

zero_extend(b, width) == bv_pad_left(b, width, 0)

sign_extend(b, width) ==
    LET sign == IF Len(b) = 0 THEN 0 ELSE b[Len(b)]
    IN  bv_pad_left(b, width, sign)

RECURSIVE twos_negate_loop(_, _, _)
twos_negate_loop(b, i, carry) ==
    IF i > Len(b) THEN b
    ELSE LET sum == Xor(b[i], carry)
             c2  == And(b[i], carry)
             b2  == [b EXCEPT ![i] = sum]
         IN  IF c2 = 0 THEN b2 ELSE twos_negate_loop(b2, i + 1, c2)

\* one's complement: the increment is left out
twos_negate_invert_only(b) ==
    IF Len(b) = 0 THEN <<0>> ELSE Invert(b)

twos_negate(b) ==
    IF Len(b) = 0 THEN <<0>>
    ELSE twos_negate_loop(Invert(b), 1, 1)

(* A std::string is a sequence of one-character strings. *)

DecDigits == <<"0", "1", "2", "3", "4", "5", "6", "7", "8", "9">>
LowerHex == <<"a", "b", "c", "d", "e", "f">>
UpperHex == <<"A", "B", "C", "D", "E", "F">>

Range(seq) == {seq[i] : i \in 1..Len(seq)}

\* 0-based position of c in seq (c - '0', c - 'a')
Offset(seq, c) == (CHOOSE i \in 1..Len(seq) : seq[i] = c) - 1

\* std::tolower on the characters the model uses
tolower(c) == IF c \in Range(UpperHex) THEN LowerHex[Offset(UpperHex, c) + 1] ELSE c

\* a thrown exception, as a value
Throw(what) == [ok |-> FALSE, what |-> what]

InvalidHexDigit == Throw("invalid_argument: Invalid hex digit")

\* returns [ok, v]: the digit's value, or the exception thrown
hex_nibble_from_char(c) ==
    IF c \in Range(DecDigits) THEN [ok |-> TRUE, v |-> Offset(DecDigits, c)]
    ELSE LET l == tolower(c)
         IN  IF l \in Range(LowerHex)
             THEN [ok |-> TRUE, v |-> 10 + Offset(LowerHex, l)]
             ELSE InvalidHexDigit

char_from_nibble(v) ==
    IF v > 15 THEN "logic_error: nibble out of range"
    ELSE (DecDigits \o LowerHex)[v + 1]

\* hex.rfind("0x", 0) == 0 || hex.rfind("0X", 0) == 0
HasHexPrefix(hex) ==
    Len(hex) >= 2 /\ hex[1] = "0" /\ (hex[2] = "x" \/ hex[2] = "X")

\* hex.erase(std::remove(hex.begin(), hex.end(), '_'), hex.end())
RECURSIVE RemoveUnderscores(_)
RemoveUnderscores(hex) ==
    IF Len(hex) = 0 THEN <<>>
    ELSE IF hex[1] = "_" THEN RemoveUnderscores(Tail(hex))
    ELSE <<hex[1]>> \o RemoveUnderscores(Tail(hex))

\* (nib >> 0) & 1, ..., (nib >> 3) & 1
NibbleBits(nib) ==
    <<nib % 2, (nib \div 2) % 2, (nib \div 4) % 2, (nib \div 8) % 2>>

\* the loop of bv_from_hex_string: it walks hex from its last character (it)
\* to its first, and a bad digit throws
RECURSIVE from_hex_loop(_, _, _)
from_hex_loop(hex, it, out) ==
    IF it = 0 THEN [ok |-> TRUE, bits |-> out]
    ELSE LET nib == hex_nibble_from_char(hex[it])
         IN  IF ~nib.ok THEN nib
             ELSE from_hex_loop(hex, it - 1, out \o NibbleBits(nib.v))

\* returns [ok, bits]: the parsed Bits, or the exception thrown
bv_from_hex_string(hex_in) ==
    LET h1 == IF HasHexPrefix(hex_in) THEN SubSeq(hex_in, 3, Len(hex_in))
              ELSE hex_in
        hex == RemoveUnderscores(h1)
    IN  IF Len(hex) = 0 THEN [ok |-> TRUE, bits |-> <<0>>]
        ELSE LET out == from_hex_loop(hex, Len(hex), <<>>)
             IN  IF ~out.ok THEN out
                 ELSE [ok |-> TRUE, bits |-> trim_leading(out.bits)]

\* the nibble loop of bv_to_hex_string (i is the code's i + 1)
RECURSIVE to_hex_loop(_, _, _)
to_hex_loop(b, i, s) ==
    IF i > Len(b) THEN s
    ELSE to_hex_loop(b, i + 4,
             Append(s, char_from_nibble(b[i] + 2 * b[i + 1]
                                        + 4 * b[i + 2] + 8 * b[i + 3])))

\* a mutant of Reverse: the string is left in LSB-first order
no_reverse(s) == s

RECURSIVE Reverse(_)
Reverse(s) == IF Len(s) = 0 THEN <<>> ELSE Append(Reverse(Tail(s)), s[1])

\* while (nz + 1 < s.size() && s[nz] == '0') ++nz
RECURSIVE leading_zero_count(_, _)
leading_zero_count(s, nz) ==
    IF nz + 1 < Len(s) /\ s[nz + 1] = "0" THEN leading_zero_count(s, nz + 1)
    ELSE nz

bv_to_hex_string(b_in, prefix0x) ==
    LET b0 == IF Len(b_in) = 0 THEN <<0>> ELSE b_in
        rem == Len(b0) % 4
        b == IF rem # 0 THEN b0 \o Fill(4 - rem, 0) ELSE b0
        s == Reverse(to_hex_loop(b, 1, <<>>))
        nz == leading_zero_count(s, 0)
        t == SubSeq(s, nz + 1, Len(s))
    IN  IF prefix0x THEN <<"0", "x">> \o t ELSE t

(* ------------------------------- alu.cpp ------------------------------ *)

AluOp == {"Add", "Sub", "Sll", "Srl", "Sra"}

RECURSIVE add_32_loop(_, _, _, _, _)
add_32_loop(a, b, i, carry, sum) ==
    IF i > Len(sum) THEN [sum |-> sum, carry_out |-> carry]
    ELSE LET ai == a[i]
             bi == b[i]
             partial == Xor(ai, bi)
             s == Xor(partial, carry)
             carry_next == Or(Or(And(ai, bi), And(ai, carry)), And(bi, carry))
         IN  add_32_loop(a, b, i + 1, carry_next, [sum EXCEPT ![i] = s])

\* a mutant of add_32: the carry is not propagated between bit positions
RECURSIVE add_32_no_carry_loop(_, _, _, _)
add_32_no_carry_loop(a, b, i, sum) ==
    IF i > Len(sum) THEN [sum |-> sum, carry_out |-> 0]
    ELSE add_32_no_carry_loop(a, b, i + 1, [sum EXCEPT ![i] = Xor(a[i], b[i])])

add_32_no_carry(a, b, width) ==
    add_32_no_carry_loop(a, b, 1, Fill(width, 0))

add_32(a, b, width) == add_32_loop(a, b, 1, 0, Fill(width, 0))

twos_negate_32(v, width) ==
    LET inv == Invert(SubSeq(v, 1, width))
        one == [Fill(width, 0) EXCEPT ![1] = 1]
    IN  add_32(inv, one, width).sum

compute_zero_flag(r) == IF \E i \in 1..Len(r) : r[i] # 0 THEN 0 ELSE 1

\* flags.V of the Add case
add_overflow(sign_a, sign_b, sign_r) ==
    IF sign_a = sign_b /\ sign_r # sign_a THEN 1 ELSE 0

\* a mutant of sub_overflow: the rule of the Add case
sub_overflow_as_add(sign_a, sign_b, sign_r) ==
    IF sign_a = sign_b /\ sign_r # sign_a THEN 1 ELSE 0

\* flags.V of the Sub case
sub_overflow(sign_a, sign_b, sign_r) ==
    IF sign_a # sign_b /\ sign_r # sign_a THEN 1 ELSE 0

alu_execute(a, b, op, width) ==
    LET a32 == zero_extend(a, width)
        b32 == zero_extend(b, width)
    IN  CASE op = "Add" ->
               LET add_res == add_32(a32, b32, width)
                   result == add_res.sum
                   sign_a == a32[width]
                   sign_b == b32[width]
                   sign_r == result[width]
               IN  [result |-> result,
                    flags |-> [N |-> sign_r,
                               Z |-> compute_zero_flag(result),
                               C |-> add_res.carry_out,
                               V |-> add_overflow(sign_a, sign_b, sign_r)]]
          [] op = "Sub" ->
               LET neg_b == twos_negate_32(b32, width)
                   add_res == add_32(a32, neg_b, width)
                   result == add_res.sum
                   sign_a == a32[width]
                   sign_b == b32[width]
                   sign_r == result[width]
               IN  [result |-> result,
                    flags |-> [N |-> sign_r,
                               Z |-> compute_zero_flag(result),
                               C |-> add_res.carry_out,
                               V |-> sub_overflow(sign_a, sign_b, sign_r)]]
          [] OTHER ->
               [result |-> a32,
                flags |-> [N |-> a32[width],
                           Z |-> compute_zero_flag(a32),
                           C |-> 0,
                           V |-> 0]]

(* ------------------------------- twos.cpp ----------------------------- *)

ensure_i32_width(in) ==
    IF Len(in) = 0 THEN zero_extend(<<0>>, XLEN)
    ELSE IF Len(in) < XLEN THEN sign_extend(in, XLEN)
    ELSE IF Len(in) > XLEN THEN bv_slice(in, XLEN - 1, 0)
    ELSE in

decode_i32_to_sign_and_magnitude(b32_in) ==
    LET w == ensure_i32_width(b32_in)
        sign == w[XLEN]
        mag == IF sign = 0 THEN trim_leading(w) ELSE trim_leading(twos_negate(w))
    IN  [sign |-> sign, mag |-> IF Len(mag) = 0 THEN <<0>> ELSE mag]

\* static_cast<uint32_t>(v): v modulo 2^XLEN
to_uint32(v) == ((v % Pow2(XLEN)) + Pow2(XLEN)) % Pow2(XLEN)

\* static_cast<int32_t>(value): the value with the same residue in the signed range
to_int32(value) ==
    LET u == to_uint32(value)
    IN  IF u >= Pow2(XLEN - 1) THEN u - Pow2(XLEN) ELSE u

\* the loop of encode_i32_TEMP_host: b[i] = (u >> i) & 1 (i is the code's i)
RECURSIVE encode_i32_loop(_, _, _)
encode_i32_loop(u, i, b) ==
    IF i >= XLEN THEN b
    ELSE encode_i32_loop(u, i + 1, [b EXCEPT ![i + 1] = (u \div Pow2(i)) % 2])

encode_i32_TEMP_host(v) == encode_i32_loop(to_uint32(v), 0, Fill(XLEN, 0))

\* the lambda sum_bits of decode_i32_to_host (i is the code's i)
RECURSIVE sum_bits_loop(_, _, _)
sum_bits_loop(x, i, acc) ==
    IF i >= Len(x) THEN acc
    ELSE sum_bits_loop(x, i + 1, IF x[i + 1] = 1 THEN acc + Pow2(i) ELSE acc)

sum_bits(x) == sum_bits_loop(x, 0, 0)

\* a mutant of decode_i32_to_host: the sign bit is not looked at
decode_i32_to_host_unsigned(b) ==
    IF Len(b) = 0 THEN 0
    ELSE sum_bits(IF Len(b) < XLEN THEN sign_extend(b, XLEN)
                  ELSE IF Len(b) > XLEN THEN bv_slice(b, XLEN - 1, 0)
                  ELSE b)

decode_i32_to_host(b) ==
    IF Len(b) = 0 THEN 0
    ELSE LET w == IF Len(b) < XLEN THEN sign_extend(b, XLEN)
                  ELSE IF Len(b) > XLEN THEN bv_slice(b, XLEN - 1, 0)
                  ELSE b
             sign == w[XLEN]
         IN  IF sign = 0 THEN sum_bits(w)
             ELSE -sum_bits(twos_negate(w))

encode_twos_i32(value) ==
    LET MIN_I32 == -Pow2(XLEN - 1)
        MAX_I32 == Pow2(XLEN - 1) - 1
        narrowed == to_int32(value)
        bits == encode_i32_TEMP_host(narrowed)
    IN  [bits |-> bits,
         hex |-> bv_to_hex_string(bits, TRUE),
         overflow |-> (value < MIN_I32) \/ (value > MAX_I32)]

decode_twos_i32(b32) == decode_i32_to_host(b32)

(* ------------------------------- mdu.cpp ------------------------------ *)

MulOp == {"Mul", "Mulh", "Mulhu", "Mulhsu"}
DivOp == {"Div", "Divu", "Rem", "Remu"}

\* (i < a.size()) ? a[i] : 0, with i the sequence index
BitOrZero(a, i) == IF i <= Len(a) THEN a[i] ELSE 0

RECURSIVE add_fixed_width_loop(_, _, _, _, _, _)
add_fixed_width_loop(a, b, width, i, carry, sum) ==
    IF i > width THEN [sum |-> sum, carry_out |-> carry]
    ELSE LET ai == BitOrZero(a, i)
             bi == BitOrZero(b, i)
             partial == Xor(ai, bi)
             s == Xor(partial, carry)
             carry_next == Or(Or(And(ai, bi), And(ai, carry)), And(bi, carry))
         IN  add_fixed_width_loop(a, b, width, i + 1, carry_next,
                                  [sum EXCEPT ![i] = s])

add_fixed_width(a, b, width) ==
    add_fixed_width_loop(a, b, width, 1, 0, Fill(width, 0))

\* a mutant of twos_negate_fixed: the bits are inverted and the 1 is not added
twos_negate_fixed_no_inc(v, width) == Invert(zero_extend(v, width))

twos_negate_fixed(v, width) ==
    LET inv == Invert(zero_extend(v, width))
        one == [Fill(width, 0) EXCEPT ![1] = 1]
    IN  add_fixed_width(inv, one, width).sum

\* the loop of compare_unsigned_32, from the top bit down (i is the code's i + 1)
RECURSIVE compare_unsigned_32_loop(_, _, _)
compare_unsigned_32_loop(a, b, i) ==
    IF i = 0 THEN 0
    ELSE IF a[i] # b[i] THEN (IF a[i] < b[i] THEN -1 ELSE 1)
    ELSE compare_unsigned_32_loop(a, b, i - 1)

\* a mutant of compare_unsigned_32: equal operands compare as less
compare_unsigned_32_eq_is_less(a, b) ==
    IF compare_unsigned_32_loop(a, b, XLEN) = 1 THEN 1 ELSE -1

compare_unsigned_32(a, b) == compare_unsigned_32_loop(a, b, XLEN)

RECURSIVE subtract_unsigned_32_loop(_, _, _, _, _)
subtract_unsigned_32_loop(a, b, i, borrow, diff) ==
    IF i > XLEN THEN diff
    ELSE LET ai == a[i]
             bi == b[i]
             bin == borrow
             d == Xor(Xor(ai, bi), bin)
             not_ai == Xor(ai, 1)
             borrow_out == Or(And(not_ai, Or(bi, bin)), And(bi, bin))
         IN  subtract_unsigned_32_loop(a, b, i + 1, borrow_out,
                                       [diff EXCEPT ![i] = d])

subtract_unsigned_32(a, b) ==
    subtract_unsigned_32_loop(a, b, 1, 0, Fill(XLEN, 0))

\* a mutant of is_zero_32: the test of is_all_ones_32
is_zero_32_as_all_ones(x) == \A i \in 1..XLEN : x[i] = 1

is_zero_32(x) == \A i \in 1..XLEN : x[i] = 0

is_all_ones_32(x) == \A i \in 1..XLEN : x[i] = 1

\* a mutant of is_int_min_32: only the sign bit is tested
is_int_min_32_sign_only(x) == x[XLEN] = 1

is_int_min_32(x) == x[XLEN] = 1 /\ \A i \in 1..(XLEN - 1) : x[i] = 0

AssertionFailed == [failed |-> "assert"]

\* "step N: R=<hex> Q=<hex>"
DivSnapshot(step, R, Q) ==
    [text |-> "step N: R= Q=", step |-> step,
     R |-> bv_to_hex_string(R, TRUE), Q |-> bv_to_hex_string(Q, TRUE)]

\* the loop of div_unsigned_32; i is the code's i (XLEN-1 down to 0)
RECURSIVE div_unsigned_32_loop(_, _, _, _, _, _)
div_unsigned_32_loop(dividend, divisor, i, R, Q, trace) ==
    IF i < 0 THEN [q |-> Q, r |-> R, trace |-> trace]
    ELSE LET R1 == <<dividend[i + 1]>> \o SubSeq(R, 1, XLEN - 1)
             cmp == compare_unsigned_32(R1, divisor)
             R2 == IF cmp >= 0 THEN subtract_unsigned_32(R1, divisor) ELSE R1
             Q2 == [Q EXCEPT ![i + 1] = IF cmp >= 0 THEN 1 ELSE 0]
         IN  div_unsigned_32_loop(dividend, divisor, i - 1, R2, Q2,
                 Append(trace, DivSnapshot(XLEN - 1 - i, R2, Q2)))

div_unsigned_32(dividend, divisor) ==
    IF is_zero_32(divisor) THEN AssertionFailed
    ELSE div_unsigned_32_loop(dividend, divisor, XLEN - 1,
                              Fill(XLEN, 0), Fill(XLEN, 0), <<>>)

\* "step N: acc=<hex of the high half> mul=<hex of the low half>"
MulSnapshot(step, p) ==
    [text |-> "step N: acc= mul=", step |-> step,
     acc |-> bv_to_hex_string(SubSeq(p, XLEN + 1, 2 * XLEN), TRUE),
     mul |-> bv_to_hex_string(SubSeq(p, 1, XLEN), TRUE)]

\* a mutant of mul_loop: the register is shifted right arithmetically, its
\* top bit kept
RECURSIVE mul_loop_keeps_top_bit(_, _, _, _)
mul_loop_keeps_top_bit(p, mag1_32, step, trace) ==
    IF step >= XLEN THEN [p |-> p, trace |-> trace]
    ELSE LET trace1 == Append(trace, MulSnapshot(step, p))
             hi == SubSeq(p, XLEN + 1, 2 * XLEN)
             p1 == IF p[1] = 1
                   THEN SubSeq(p, 1, XLEN) \o add_fixed_width(hi, mag1_32, XLEN).sum
                   ELSE p
             p2 == Tail(p1) \o <<p1[2 * XLEN]>>
         IN  mul_loop_keeps_top_bit(p2, mag1_32, step + 1, trace1)

\* the shift-add loop of mdu_mul on the 2*XLEN-bit register p
RECURSIVE mul_loop(_, _, _, _)
mul_loop(p, mag1_32, step, trace) ==
    IF step >= XLEN THEN [p |-> p, trace |-> trace]
    ELSE LET trace1 == Append(trace, MulSnapshot(step, p))
             hi == SubSeq(p, XLEN + 1, 2 * XLEN)
             p1 == IF p[1] = 1
                   THEN SubSeq(p, 1, XLEN) \o add_fixed_width(hi, mag1_32, XLEN).sum
                   ELSE p
             p2 == Tail(p1) \o <<0>>
         IN  mul_loop(p2, mag1_32, step + 1, trace1)

\* a mutant of mul_overflow: the high half is compared with its own top bit
mul_overflow_hi_sign(signed_prod_64) ==
    \E i \in (XLEN + 1)..(2 * XLEN) : signed_prod_64[i] # signed_prod_64[2 * XLEN]

\* the overflow flag of mdu_mul
mul_overflow(signed_prod_64) ==
    LET sign32 == signed_prod_64[XLEN]
    IN  \E i \in (XLEN + 1)..(2 * XLEN) : signed_prod_64[i] # sign32

mdu_mul(op, rs1, rs2) ==
    LET rs1_32 == zero_extend(rs1, XLEN)
        rs2_32 == zero_extend(rs2, XLEN)
        sm1 == decode_i32_to_sign_and_magnitude(rs1_32)
        sm2 == decode_i32_to_sign_and_magnitude(rs2_32)
        sign_res == Xor(sm1.sign, sm2.sign)
        mag1_32 == zero_extend(sm1.mag, XLEN)
        mag2_32 == zero_extend(sm2.mag, XLEN)
        p0 == mag2_32 \o Fill(XLEN, 0)
        run == mul_loop(p0, mag1_32, 0, <<>>)
        trace == Append(run.trace, MulSnapshot(XLEN, run.p))
        mag_prod_64 == run.p
        signed_prod_64 == IF sign_res = 0 THEN mag_prod_64
                          ELSE twos_negate_fixed(mag_prod_64, 2 * XLEN)
    IN  [lo |-> SubSeq(signed_prod_64, 1, XLEN),
         hi |-> SubSeq(signed_prod_64, XLEN + 1, 2 * XLEN),
         overflow |-> mul_overflow(signed_prod_64),
         trace |-> trace]

\* a trace line is a record: its fixed text and, for a snapshot, its fields
DivByZeroTrace == [text |-> "divide-by-zero: q=-1, r=dividend"]
IntMinTrace == [text |-> "INT_MIN / -1 special case"]

mdu_div(op, rs1, rs2) ==
    LET rs1_32 == zero_extend(rs1, XLEN)
        rs2_32 == zero_extend(rs2, XLEN)
    IN  IF op # "Div"
        THEN [q |-> Fill(XLEN, 0), r |-> Fill(XLEN, 0),
              overflow |-> FALSE, trace |-> <<>>]
        ELSE
        LET sm1 == decode_i32_to_sign_and_magnitude(rs1_32)
            sm2 == decode_i32_to_sign_and_magnitude(rs2_32)
            mag1 == zero_extend(sm1.mag, XLEN)
            mag2 == zero_extend(sm2.mag, XLEN)
            divisor_is_zero == is_zero_32(mag2)
            dividend_is_int_min == is_int_min_32(rs1_32)
            divisor_is_minus_one == is_all_ones_32(rs2_32)
        IN  IF divisor_is_zero
            THEN [q |-> Fill(XLEN, 1), r |-> rs1_32,
                  overflow |-> FALSE, trace |-> <<DivByZeroTrace>>]
            ELSE IF dividend_is_int_min /\ divisor_is_minus_one
            THEN [q |-> rs1_32, r |-> Fill(XLEN, 0),
                  overflow |-> TRUE, trace |-> <<IntMinTrace>>]
            ELSE
            LET sign1 == sm1.sign
                sign2 == sm2.sign
                sign_q == Xor(sign1, sign2)
                ures == div_unsigned_32(mag1, mag2)
            IN  IF ures = AssertionFailed THEN AssertionFailed
                ELSE [q |-> IF sign_q = 0 THEN ures.q
                            ELSE twos_negate_fixed(ures.q, XLEN),
                      r |-> IF sign1 = 0 THEN ures.r
                            ELSE twos_negate_fixed(ures.r, XLEN),
                      overflow |-> FALSE,
                      trace |-> ures.trace]

(* --------------------------- the ALU as a machine --------------------- *)

NoRet == [fn |-> "none"]

InitALU ==
    /\ pc = "ready"
    /\ \E a \in Word, b \in Word : args = [unit |-> "alu", a |-> a, b |-> b]
    /\ ret = NoRet

\* one call of alu_execute on the chosen operands
AluExecute ==
    /\ pc = "ready"
    /\ args.unit = "alu"
    /\ \E op \in AluOp :
         ret' = [fn |-> "alu_execute", op |-> op,
                 res |-> alu_execute(args.a, args.b, op, XLEN)]
    /\ pc' = "done"
    /\ UNCHANGED args

NextALU == AluExecute

SpecALU == InitALU /\ [][NextALU]_vars

(* --------------------------- the MDU as a machine --------------------- *)

InitMDU ==
    /\ pc = "ready"
    /\ \E a \in Word, b \in Word : args = [unit |-> "mdu", a |-> a, b |-> b]
    /\ ret = NoRet

\* one call of mdu_mul on the chosen operands
MduMul ==
    /\ pc = "ready"
    /\ args.unit = "mdu"
    /\ \E op \in MulOp :
         ret' = [fn |-> "mdu_mul", op |-> op,
                 res |-> mdu_mul(op, args.a, args.b)]
    /\ pc' = "done"
    /\ UNCHANGED args

\* one call of mdu_div with dividend a and divisor b
MduDiv ==
    /\ pc = "ready"
    /\ args.unit = "mdu"
    /\ \E op \in DivOp :
         ret' = [fn |-> "mdu_div", op |-> op,
                 res |-> mdu_div(op, args.a, args.b)]
    /\ pc' = "done"
    /\ UNCHANGED args

NextMDU == MduMul \/ MduDiv

SpecMDU == InitMDU /\ [][NextMDU]_vars

(* ---------------------- the hex conversions as a machine -------------- *)

\* the characters the digit strings are drawn from: digits of both cases at
\* the ends of their ranges, the underscore, and one character that is no digit
HexAlphabet == {"0", "1", "8", "9", "a", "f", "A", "F", "_", "g"}

RECURSIVE StringsUpTo(_)
StringsUpTo(n) ==
    IF n = 0 THEN {<<>>}
    ELSE LET shorter == StringsUpTo(n - 1)
         IN  shorter \cup {Append(t, c) : t \in shorter, c \in HexAlphabet}

HexPrefixes == {<<>>, <<"0", "x">>, <<"0", "X">>}

InitHex ==
    /\ pc = "ready"
    /\ \E pre \in HexPrefixes, body \in StringsUpTo(MaxHexLen) :
         args = [unit |-> "bitvec", s |-> pre \o body]
    /\ ret = NoRet

\* bv_from_hex_string on the chosen string: it returns Bits or throws
FromHexString ==
    /\ pc = "ready"
    /\ args.unit = "bitvec"
    /\ ret' = [fn |-> "bv_from_hex_string", res |-> bv_from_hex_string(args.s)]
    /\ pc' = "parsed"
    /\ UNCHANGED args

\* bv_to_hex_string on the Bits that was returned
ToHexString ==
    /\ pc = "parsed"
    /\ ret.fn = "bv_from_hex_string"
    /\ ret.res.ok
    /\ \E prefix0x \in BOOLEAN :
         ret' = [fn |-> "bv_to_hex_string", b |-> ret.res.bits,
                 prefix0x |-> prefix0x,
                 res |-> bv_to_hex_string(ret.res.bits, prefix0x)]
    /\ pc' = "done"
    /\ UNCHANGED args

NextHex == FromHexString \/ ToHexString

SpecHex == InitHex /\ [][NextHex]_vars

(* ------------------- the two's-complement bridge as a machine --------- *)

\* the integers given to encode_twos_i32: the signed range and a full wrap
\* on either side of it
InitTwos ==
    /\ pc = "ready"
    /\ \E v \in (-Pow2(XLEN + 1))..Pow2(XLEN + 1) :
         args = [unit |-> "twos", v |-> v]
    /\ ret = NoRet

EncodeTwos ==
    /\ pc = "ready"
    /\ args.unit = "twos"
    /\ ret' = [fn |-> "encode_twos_i32", res |-> encode_twos_i32(args.v)]
    /\ pc' = "encoded"
    /\ UNCHANGED args

\* decode_twos_i32 on the bits encode_twos_i32 returned
DecodeTwos ==
    /\ pc = "encoded"
    /\ ret.fn = "encode_twos_i32"
    /\ ret' = [fn |-> "decode_twos_i32", b32 |-> ret.res.bits,
               res |-> decode_twos_i32(ret.res.bits)]
    /\ pc' = "done"
    /\ UNCHANGED args

NextTwos == EncodeTwos \/ DecodeTwos

SpecTwos == InitTwos /\ [][NextTwos]_vars

(* ------------------------ values, for the claims ---------------------- *)

\* unsigned value of a bit vector
RECURSIVE Val(_)
Val(b) == IF Len(b) = 0 THEN 0 ELSE b[1] + 2 * Val(Tail(b))

\* two's-complement value of a bit vector of width XLEN
SVal(b) == IF b[XLEN] = 1 THEN Val(b) - Pow2(XLEN) ELSE Val(b)

\* the pattern with only the top bit set (0x80000000) and the all-ones pattern
IntMinBits == Append(Fill(XLEN - 1, 0), 1)
AllOnesBits == Fill(XLEN, 1)

AluDone(op) == pc = "done" /\ ret.fn = "alu_execute" /\ ret.op = op

(* ------------------------------- claims -------------------------------- *)

\* C1: alu_execute(a, b, Add).result is (a + b) mod 2^XLEN and
\* alu_execute(a, b, Sub).result is (a - b) mod 2^XLEN, equal to
\* alu_execute(a, twos_negate(b), Add).result; the result is XLEN bits wide,
\* N is its top bit and Z = 1 exactly when all its bits are 0.
C1_AddSubResult ==
    /\ AluDone("Add") =>
         Val(ret.res.result) = (Val(args.a) + Val(args.b)) % Pow2(XLEN)
    /\ AluDone("Sub") =>
         /\ Val(ret.res.result)
              = (Val(args.a) - Val(args.b) + Pow2(XLEN)) % Pow2(XLEN)
         /\ ret.res.result
              = alu_execute(args.a, twos_negate(args.b), "Add", XLEN).result
    /\ (AluDone("Add") \/ AluDone("Sub")) =>
         /\ Len(ret.res.result) = XLEN
         /\ ret.res.flags.N = ret.res.result[XLEN]
         /\ (ret.res.flags.Z = 1) <=> (\A i \in 1..XLEN : ret.res.result[i] = 0)

\* a subtraction that wraps below zero, and one whose result is zero
C1_Witness ==
    /\ AluDone("Sub")
    /\ Val(args.a) < Val(args.b)
    /\ ret.res.flags.N = 1
    /\ ret.res.flags.Z = 0

\* C2: the carry flag of Add is 1 exactly when the unsigned sum a + b is at
\* least 2^XLEN; the carry flag of Sub is 1 exactly when a >= b as unsigned
\* values (no borrow), b = 0 included.
C2_CarryIsNoBorrow ==
    /\ AluDone("Add") =>
         ((ret.res.flags.C = 1) <=> (Val(args.a) + Val(args.b) >= Pow2(XLEN)))
    /\ AluDone("Sub") =>
         ((ret.res.flags.C = 1) <=> (Val(args.a) >= Val(args.b)))

\* C3: the V flag of Add (of Sub) is 1 exactly when the mathematical signed
\* sum (difference) of a and b lies outside [-2^(XLEN-1), 2^(XLEN-1) - 1].
InSignedRange(v) == -Pow2(XLEN - 1) <= v /\ v <= Pow2(XLEN - 1) - 1

C3_SignedOverflow ==
    /\ AluDone("Add") =>
         ((ret.res.flags.V = 1) <=> ~InSignedRange(SVal(args.a) + SVal(args.b)))
    /\ AluDone("Sub") =>
         ((ret.res.flags.V = 1) <=> ~InSignedRange(SVal(args.a) - SVal(args.b)))

\* a non-negative a minus the most negative value overflows
C3_Witness ==
    /\ AluDone("Sub")
    /\ args.b = IntMinBits
    /\ args.a[XLEN] = 0
    /\ ret.res.flags.V = 1

MulDone == pc = "done" /\ ret.fn = "mdu_mul" /\ ret.op = "Mul"
DivDone == pc = "done" /\ ret.fn = "mdu_div" /\ ret.op = "Div"

Abs(v) == IF v < 0 THEN -v ELSE v

\* C4: mdu_mul(Mul, a, b) returns hi:lo equal to the 2*XLEN-bit two's-complement
\* signed product of a and b, so lo is the signed product truncated to XLEN
\* bits, and the trace has exactly XLEN + 1 entries (33 at width 32).
C4_MulProduct ==
    MulDone =>
      LET prod == SVal(args.a) * SVal(args.b)
          wide == Pow2(2 * XLEN)
      IN  /\ Len(ret.res.lo) = XLEN
          /\ Len(ret.res.hi) = XLEN
          /\ Val(ret.res.lo) + Pow2(XLEN) * Val(ret.res.hi) = (prod + wide) % wide
          /\ Val(ret.res.lo) = (prod + wide) % Pow2(XLEN)
          /\ Len(ret.res.trace) = XLEN + 1

\* the most negative value times itself: the largest magnitude product
C4_Witness ==
    /\ MulDone
    /\ args.a = IntMinBits
    /\ args.b = IntMinBits
    /\ Val(ret.res.hi) = Pow2(XLEN - 2)
    /\ Val(ret.res.lo) = 0

\* C5: mdu_mul(Mul, a, b).overflow is true exactly when the mathematical signed
\* product of a and b does not fit in a signed XLEN-bit integer.
C5_MulOverflow ==
    MulDone => (ret.res.overflow <=> ~InSignedRange(SVal(args.a) * SVal(args.b)))

\* the most negative value times -1 overflows
C5_Witness ==
    /\ MulDone
    /\ args.a = IntMinBits
    /\ args.b = AllOnesBits
    /\ ret.res.overflow

\* the operands of the general case of mdu_div
DivGeneralCase ==
    /\ DivDone
    /\ Val(args.b) # 0
    /\ ~(args.a = IntMinBits /\ args.b = AllOnesBits)

\* C6: for divisor # 0 and not (most negative value / -1), mdu_div(Div, ...)
\* returns q, r with dividend = q * divisor + r in signed arithmetic, q the
\* quotient truncated toward zero, |r| < |divisor|, r zero or of the
\* dividend's sign, and overflow false.
C6_DivGeneral ==
    DivGeneralCase =>
      LET n == SVal(args.a)
          d == SVal(args.b)
          q == SVal(ret.res.q)
          r == SVal(ret.res.r)
          trunc == IF (n < 0) = (d < 0) THEN Abs(n) \div Abs(d)
                   ELSE -(Abs(n) \div Abs(d))
      IN  /\ Len(ret.res.q) = XLEN
          /\ Len(ret.res.r) = XLEN
          /\ n = q * d + r
          /\ q = trunc
          /\ Abs(r) < Abs(d)
          /\ (r = 0 \/ (r < 0) = (n < 0))
          /\ ret.res.overflow = FALSE

\* the most negative dividend with a non-zero negative remainder
C6_Witness ==
    /\ DivGeneralCase
    /\ args.a = IntMinBits
    /\ SVal(args.b) = 3
    /\ SVal(ret.res.r) < 0
    /\ SVal(ret.res.q) < 0

\* C7: mdu_div(Div, d, 0) returns the all-ones quotient, the dividend's bits
\* as remainder, overflow = false and a trace whose first entry is the
\* divide-by-zero line; no assertion fails.
C7_DivByZero ==
    (DivDone /\ Val(args.b) = 0) =>
      /\ ret.res # AssertionFailed
      /\ ret.res.q = AllOnesBits
      /\ ret.res.r = args.a
      /\ ret.res.overflow = FALSE
      /\ Len(ret.res.trace) >= 1
      /\ ret.res.trace[1] = DivByZeroTrace

\* the most negative dividend divided by zero
C7_Witness ==
    /\ DivDone
    /\ Val(args.b) = 0
    /\ args.a = IntMinBits
    /\ ret.res.r = IntMinBits

\* C8: mdu_div(Div, most negative value, -1) returns the dividend as quotient,
\* remainder 0, overflow = true and a trace whose first entry is the special
\* case line; over all operand pairs and ops, overflow is true for this call
\* only.
C8_DivIntMinMinusOne ==
    /\ (DivDone /\ args.a = IntMinBits /\ args.b = AllOnesBits) =>
         /\ ret.res.q = IntMinBits
         /\ Val(ret.res.r) = 0
         /\ Len(ret.res.r) = XLEN
         /\ ret.res.overflow = TRUE
         /\ ret.res.trace[1] = IntMinTrace
    /\ (pc = "done" /\ ret.fn = "mdu_div" /\ ret.res # AssertionFailed
          /\ ret.res.overflow) =>
         (ret.op = "Div" /\ args.a = IntMinBits /\ args.b = AllOnesBits)

C8_Witness ==
    /\ DivDone
    /\ args.a = IntMinBits
    /\ args.b = AllOnesBits
    /\ ret.res.overflow

\* the reference form of a hex string: characters, not bits
HexDigitChars == Range(DecDigits) \cup Range(LowerHex) \cup Range(UpperHex)

LowerOf(c) ==
    CASE c = "A" -> "a" [] c = "B" -> "b" [] c = "C" -> "c"
      [] c = "D" -> "d" [] c = "E" -> "e" [] c = "F" -> "f"
      [] OTHER -> c

\* s without its 0x/0X prefix
Unprefixed(s) ==
    IF Len(s) >= 2 /\ SubSeq(s, 1, 2) \in {<<"0", "x">>, <<"0", "X">>}
    THEN SubSeq(s, 3, Len(s)) ELSE s

\* the digits of t in lower case, underscores left out
RECURSIVE LowerDigits(_)
LowerDigits(t) ==
    IF t = <<>> THEN <<>>
    ELSE IF Head(t) = "_" THEN LowerDigits(Tail(t))
    ELSE <<LowerOf(Head(t))>> \o LowerDigits(Tail(t))

\* leading zero digits dropped, one digit kept
RECURSIVE TrimZeroDigits(_)
TrimZeroDigits(t) ==
    IF Len(t) > 1 /\ Head(t) = "0" THEN TrimZeroDigits(Tail(t)) ELSE t

\* s is hex digits and underscores after an optional prefix, with a digit
IsHexLiteral(s) ==
    /\ \A i \in 1..Len(Unprefixed(s)) : Unprefixed(s)[i] \in HexDigitChars \cup {"_"}
    /\ \E i \in 1..Len(Unprefixed(s)) : Unprefixed(s)[i] \in HexDigitChars

\* C9: for every string s of hex digits (either case), optionally prefixed by
\* 0x/0X and containing underscores, bv_from_hex_string(s) returns and
\* bv_to_hex_string of it is "0x" followed by the lowercase digits of s with
\* underscores removed and leading zeros trimmed down to one digit at least.
C9_HexRoundTrip ==
    /\ (pc = "parsed" /\ IsHexLiteral(args.s)) => ret.res.ok
    /\ (pc = "done" /\ ret.fn = "bv_to_hex_string" /\ ret.prefix0x
          /\ IsHexLiteral(args.s)) =>
         ret.res = <<"0", "x">> \o TrimZeroDigits(LowerDigits(Unprefixed(args.s)))

\* a prefixed literal with a leading zero, an underscore and an upper-case digit
C9_Witness ==
    /\ pc = "done"
    /\ ret.fn = "bv_to_hex_string"
    /\ ret.prefix0x
    /\ args.s = <<"0", "X", "0", "_", "F">>
    /\ ret.res = <<"0", "x", "f">>

\* C10: encode_twos_i32(v) returns exactly XLEN bits holding v mod 2^XLEN with
\* overflow = true exactly when v is outside the signed range; for v inside
\* the range decode_twos_i32(encode_twos_i32(v).bits) = v.
C10_EncodeDecode ==
    /\ (pc = "encoded" /\ ret.fn = "encode_twos_i32") =>
         /\ Len(ret.res.bits) = XLEN
         /\ Val(ret.res.bits) = ((args.v % Pow2(XLEN)) + Pow2(XLEN)) % Pow2(XLEN)
         /\ ret.res.overflow <=> ~InSignedRange(args.v)
    /\ (pc = "done" /\ ret.fn = "decode_twos_i32" /\ InSignedRange(args.v)) =>
         ret.res = args.v

\* the most negative value decoded back
C10_Witness ==
    /\ pc = "done"
    /\ ret.fn = "decode_twos_i32"
    /\ args.v = -Pow2(XLEN - 1)
    /\ ret.b32 = IntMinBits
    /\ ret.res = args.v

(* ------------------------ twos_negate as a machine -------------------- *)

\* a bit vector of any width up to MaxNegWidth, the empty one included
InitNeg ==
    /\ pc = "ready"
    /\ \E w \in 0..MaxNegWidth : \E b \in BitsOfWidth(w) :
         args = [unit |-> "negate", b |-> b]
    /\ ret = NoRet

TwosNegate ==
    /\ pc = "ready"
    /\ args.unit = "negate"
    /\ ret' = [fn |-> "twos_negate", b |-> args.b, res |-> twos_negate(args.b)]
    /\ pc' = "negated"
    /\ UNCHANGED args

\* twos_negate on the vector the first call returned
TwosNegateAgain ==
    /\ pc = "negated"
    /\ ret.fn = "twos_negate"
    /\ ret' = [fn |-> "twos_negate", b |-> ret.res, res |-> twos_negate(ret.res)]
    /\ pc' = "done"
    /\ UNCHANGED args

NextNeg == TwosNegate \/ TwosNegateAgain

SpecNeg == InitNeg /\ [][NextNeg]_vars

\* C11: for a non-empty b of width W, twos_negate(b) has width W and value
\* (2^W - value(b)) mod 2^W, and negating twice gives b back; a zero vector
\* negates to the zero vector of its width, the vector with only its top bit
\* set negates to itself, and the empty vector negates to <<0>>.
C11_TwosNegate ==
    /\ (pc = "negated" /\ Len(args.b) > 0) =>
         /\ Len(ret.res) = Len(args.b)
         /\ Val(ret.res)
              = (Pow2(Len(args.b)) - Val(args.b)) % Pow2(Len(args.b))
         /\ (Val(args.b) = 0) => ret.res = Fill(Len(args.b), 0)
         /\ (args.b = Append(Fill(Len(args.b) - 1, 0), 1)) => ret.res = args.b
    /\ (pc = "negated" /\ Len(args.b) = 0) => ret.res = <<0>>
    /\ (pc = "done" /\ Len(args.b) > 0) => ret.res = args.b

\* a vector whose increment carries through several bits, negated twice
C11_Witness ==
    /\ pc = "done"
    /\ args.b = <<0, 0, 1, 1>>
    /\ ret.b = <<0, 0, 1, 0>>
    /\ ret.res = args.b

(* -------------------------------- f32.cpp ----------------------------- *)

F32_BITS == 1 + EXP_BITS + FRAC_BITS
SIG_BITS == FRAC_BITS + 1

Min(x, y) == IF x < y THEN x ELSE y

\* the loop of compare_unsigned, from the code's index i down to 0
RECURSIVE compare_unsigned_loop(_, _, _)
compare_unsigned_loop(a, b, i) ==
    IF i < 0 THEN 0
    ELSE IF a[i + 1] # b[i + 1] THEN (IF a[i + 1] < b[i + 1] THEN -1 ELSE 1)
    ELSE compare_unsigned_loop(a, b, i - 1)

compare_unsigned(a, b) ==
    LET width == Min(Len(a), Len(b))
    IN  IF width = 0 THEN 0 ELSE compare_unsigned_loop(a, b, width - 1)

RECURSIVE add_unsigned_loop(_, _, _, _, _, _)
add_unsigned_loop(a, b, width, i, carry, sum) ==
    IF i >= width THEN [sum |-> sum, carry_out |-> carry]
    ELSE LET ai == BitOrZero(a, i + 1)
             bi == BitOrZero(b, i + 1)
             partial == Xor(ai, bi)
             s == Xor(partial, carry)
             carry_next == Or(Or(And(ai, bi), And(ai, carry)), And(bi, carry))
         IN  add_unsigned_loop(a, b, width, i + 1, carry_next, Append(sum, s))

add_unsigned(a, b, width) == add_unsigned_loop(a, b, width, 0, 0, <<>>)

RECURSIVE subtract_unsigned_loop(_, _, _, _, _, _)
subtract_unsigned_loop(a, b, width, i, borrow, diff) ==
    IF i >= width THEN [diff |-> diff, borrow_out |-> borrow]
    ELSE LET ai == BitOrZero(a, i + 1)
             bi == BitOrZero(b, i + 1)
             bin == borrow
             d == Xor(Xor(ai, bi), bin)
             not_ai == Xor(ai, 1)
             borrow_next == Or(And(not_ai, Or(bi, bin)), And(bi, bin))
         IN  subtract_unsigned_loop(a, b, width, i + 1, borrow_next,
                                    Append(diff, d))

subtract_unsigned(a, b, width) ==
    subtract_unsigned_loop(a, b, width, 0, 0, <<>>)

shift_right_logical(v, width) ==
    IF width = 0 THEN v
    ELSE SubSeq(v, 2, width) \o <<0>> \o SubSeq(v, width + 1, Len(v))

shift_left_logical(v, width) ==
    IF width = 0 THEN v
    ELSE <<0>> \o SubSeq(v, 1, width - 1) \o SubSeq(v, width + 1, Len(v))

bits_all_zero(x) == \A i \in 1..Len(x) : x[i] = 0

bits_all_ones(x) == \A i \in 1..Len(x) : x[i] = 1

unpack_f32(bits) ==
    LET b32 == zero_extend(bits, F32_BITS)
    IN  [sign |-> b32[F32_BITS],
         exponent |-> SubSeq(b32, FRAC_BITS + 1, FRAC_BITS + EXP_BITS),
         fraction |-> SubSeq(b32, 1, FRAC_BITS)]

\* the first n bits of x, zeros where x has none ("i < n && i < x.size()")
CopyInto(x, n) == SubSeq(x, 1, Min(n, Len(x))) \o Fill(n - Min(n, Len(x)), 0)

\* the sign bit stored where the exponent bits end
pack_f32_sign_in_exponent(f) ==
    CopyInto(f.fraction, FRAC_BITS)
        \o SubSeq(CopyInto(f.exponent, EXP_BITS), 1, EXP_BITS - 1)
        \o <<f.sign, 0>>

pack_f32(f) ==
    CopyInto(f.fraction, FRAC_BITS) \o CopyInto(f.exponent, EXP_BITS)
        \o <<f.sign>>

NoFlags ==
    [overflow |-> FALSE, underflow |-> FALSE, invalid |-> FALSE,
     inexact |-> FALSE]

make_zero_fpu_result ==
    [bits |-> Fill(F32_BITS, 0), flags |-> NoFlags, trace |-> <<>>]

\* Bits(8, 0) with bit 0 set
OneExp == <<1>> \o Fill(EXP_BITS - 1, 0)

\* the alignment loop of fadd_f32: one right shift of the smaller significand
\* for each decrement of exp_tmp, until it meets exp_small or borrows
RECURSIVE align_loop(_, _, _)
align_loop(exp_tmp, exp_small, sig_small_aligned) ==
    IF compare_unsigned(exp_tmp, exp_small) > 0
    THEN LET sig2 == shift_right_logical(sig_small_aligned, SIG_BITS)
             dec == subtract_unsigned(exp_tmp, OneExp, EXP_BITS)
         IN  IF dec.borrow_out = 1 THEN sig2
             ELSE align_loop(dec.diff, exp_small, sig2)
    ELSE sig_small_aligned

\* the normalization loop of fadd_f32: shift left until the top bit is 1
RECURSIVE normalize_loop(_, _)
normalize_loop(sig_diff, exp_res) ==
    IF sig_diff[SIG_BITS] = 0 /\ ~bits_all_zero(sig_diff)
    THEN LET sig2 == shift_left_logical(sig_diff, SIG_BITS)
             dec == subtract_unsigned(exp_res, OneExp, EXP_BITS)
         IN  IF dec.borrow_out = 1 THEN [sig_diff |-> sig2, exp_res |-> dec.diff]
             ELSE normalize_loop(sig2, dec.diff)
    ELSE [sig_diff |-> sig_diff, exp_res |-> exp_res]

Zero(sign) ==
    [sign |-> sign, exponent |-> Fill(EXP_BITS, 0),
     fraction |-> Fill(FRAC_BITS, 0)]

fadd_f32(a, b) ==
    LET out == [make_zero_fpu_result EXCEPT !.trace = <<"fadd_f32 start">>]
        a32 == zero_extend(a, F32_BITS)
        b32 == zero_extend(b, F32_BITS)
        fa == unpack_f32(a32)
        fb == unpack_f32(b32)
        sigA == Append(fa.fraction, 1)
        sigB == Append(fb.fraction, 1)
        cmp_exp == compare_unsigned(fa.exponent, fb.exponent)
        a_big == cmp_exp >= 0
        exp_big == IF a_big THEN fa.exponent ELSE fb.exponent
        exp_small == IF a_big THEN fb.exponent ELSE fa.exponent
        sig_big == IF a_big THEN sigA ELSE sigB
        sig_small == IF a_big THEN sigB ELSE sigA
        sign_big == IF a_big THEN fa.sign ELSE fb.sign
        sign_small == IF a_big THEN fb.sign ELSE fa.sign
        sig_small_aligned == align_loop(exp_big, exp_small, sig_small)
        \* same sign
        add == add_unsigned(sig_big, sig_small_aligned, SIG_BITS)
        sig_sum == IF add.carry_out = 1
                   THEN shift_right_logical(add.sum, SIG_BITS) ELSE add.sum
        exp_sum == IF add.carry_out = 1
                   THEN add_unsigned(exp_big, OneExp, EXP_BITS).sum
                   ELSE exp_big
        \* different signs
        mag_cmp == compare_unsigned(sig_big, sig_small_aligned)
        sig_big_local == IF mag_cmp < 0 THEN sig_small_aligned ELSE sig_big
        sig_small_local == IF mag_cmp < 0 THEN sig_big ELSE sig_small_aligned
        result_sign == IF mag_cmp < 0 THEN sign_small ELSE sign_big
        sig_diff == subtract_unsigned(sig_big_local, sig_small_local, SIG_BITS).diff
        norm == normalize_loop(sig_diff, exp_big)
    IN  IF bits_all_zero(fa.exponent) /\ bits_all_zero(fa.fraction)
        THEN [out EXCEPT !.bits = b32,
                         !.trace = Append(@, "a is zero -> return b")]
        ELSE IF bits_all_zero(fb.exponent) /\ bits_all_zero(fb.fraction)
        THEN [out EXCEPT !.bits = a32,
                         !.trace = Append(@, "b is zero -> return a")]
        ELSE IF sign_big = sign_small
        THEN [out EXCEPT
                !.bits = pack_f32([sign |-> sign_big, exponent |-> exp_sum,
                                   fraction |-> SubSeq(sig_sum, 1, FRAC_BITS)]),
                !.trace = Append(@, "fadd_f32 normal same-sign add")]
        ELSE IF mag_cmp = 0
        THEN [out EXCEPT
                !.bits = pack_f32(Zero(0)),
                !.trace = Append(@, "fadd_f32 different-sign: exact zero")]
        ELSE IF bits_all_zero(sig_diff)
        THEN [out EXCEPT
                !.bits = pack_f32(Zero(0)),
                !.trace = Append(@, "fadd_f32 different-sign: diff zero")]
        ELSE [out EXCEPT
                !.bits = pack_f32([sign |-> result_sign,
                                   exponent |-> norm.exp_res,
                                   fraction |-> SubSeq(norm.sig_diff, 1, FRAC_BITS)]),
                !.trace = Append(@, "fadd_f32 different-sign subtract")]

fsub_f32(a, b) ==
    LET b32 == zero_extend(b, F32_BITS)
        b_neg == [b32 EXCEPT ![F32_BITS] = Xor(b32[F32_BITS], 1)]
    IN  fadd_f32(a, b_neg)

\* bv_from_hex_string("0x7fc00000"): sign 0, exponent all ones, top fraction
\* bit set; the parser trims the leading zero, so the vector is one bit short
\* of F32_BITS
nan_bits ==
    trim_leading(Fill(FRAC_BITS - 1, 0) \o <<1>> \o Fill(EXP_BITS, 1) \o <<0>>)

\* all-ones exponent + bias on EXP_BITS + 1 bits (binary 1 0111 1110 in the code)
thresh382 == <<0>> \o Fill(EXP_BITS - 2, 1) \o <<0, 1>>

\* binary 0111 1111 in the code
bias == Fill(EXP_BITS - 1, 1) \o <<0>>

\* the operand signs are dropped: always +infinity
Infinity_positive(sign) ==
    [sign |-> 0, exponent |-> Fill(EXP_BITS, 1),
     fraction |-> Fill(FRAC_BITS, 0)]

Infinity(sign) ==
    [sign |-> sign, exponent |-> Fill(EXP_BITS, 1),
     fraction |-> Fill(FRAC_BITS, 0)]

\* the shift-and-add loop over the SIG_BITS multiplier bits
RECURSIVE fmul_loop(_, _, _, _)
fmul_loop(prod, multiplicand, multiplier, step) ==
    IF step >= SIG_BITS THEN prod
    ELSE fmul_loop(IF multiplier[1] = 1
                   THEN add_unsigned(prod, multiplicand, 2 * SIG_BITS).sum
                   ELSE prod,
                   shift_left_logical(multiplicand, 2 * SIG_BITS),
                   shift_right_logical(multiplier, SIG_BITS),
                   step + 1)

fmul_f32(a, b) ==
    LET out == [make_zero_fpu_result EXCEPT !.trace = <<"fmul_f32 start">>]
        a32 == zero_extend(a, F32_BITS)
        b32 == zero_extend(b, F32_BITS)
        fa == unpack_f32(a32)
        fb == unpack_f32(b32)
        sign_res == Xor(fa.sign, fb.sign)
        expA_zero == bits_all_zero(fa.exponent)
        expB_zero == bits_all_zero(fb.exponent)
        expA_ones == bits_all_ones(fa.exponent)
        expB_ones == bits_all_ones(fb.exponent)
        fracA_zero == bits_all_zero(fa.fraction)
        fracB_zero == bits_all_zero(fb.fraction)
        a_is_zero == expA_zero /\ fracA_zero
        b_is_zero == expB_zero /\ fracB_zero
        a_is_inf == expA_ones /\ fracA_zero
        b_is_inf == expB_ones /\ fracB_zero
        a_is_nan == expA_ones /\ ~fracA_zero
        b_is_nan == expB_ones /\ ~fracB_zero
        expA9 == fa.exponent \o <<0>>
        expB9 == fb.exponent \o <<0>>
        exp_sum9 == add_unsigned(expA9, expB9, EXP_BITS + 1).sum
        exp_sum == add_unsigned(fa.exponent, fb.exponent, EXP_BITS).sum
        sub == subtract_unsigned(exp_sum, bias, EXP_BITS)
        exp_tmp == sub.diff
        sigA == Append(fa.fraction, IF expA_zero THEN 0 ELSE 1)
        sigB == Append(fb.fraction, IF expB_zero THEN 0 ELSE 1)
        prod == fmul_loop(Fill(2 * SIG_BITS, 0), sigA \o Fill(SIG_BITS, 0),
                          sigB, 0)
        high == prod[2 * SIG_BITS] = 1
        inc == add_unsigned(exp_tmp, OneExp, EXP_BITS)
        exp_res == IF high THEN inc.sum ELSE exp_tmp
        shift == IF high THEN SIG_BITS ELSE SIG_BITS - 1
        sig_res == SubSeq(prod, shift + 1, shift + SIG_BITS)
    IN  IF a_is_nan \/ b_is_nan
        THEN [out EXCEPT !.bits = nan_bits, !.flags.invalid = TRUE,
                         !.trace = Append(@, "fmul_f32: NaN operand")]
        ELSE IF (a_is_inf /\ b_is_zero) \/ (b_is_inf /\ a_is_zero)
        THEN [out EXCEPT !.bits = nan_bits, !.flags.invalid = TRUE,
                         !.trace = Append(@, "fmul_f32: 0 * inf invalid")]
        ELSE IF a_is_inf \/ b_is_inf
        THEN [out EXCEPT !.bits = pack_f32(Infinity(sign_res)),
                         !.trace = Append(@, "fmul_f32: inf result")]
        ELSE IF a_is_zero \/ b_is_zero
        THEN [out EXCEPT !.bits = pack_f32(Zero(sign_res)),
                         !.trace = Append(@, "fmul_f32: zero result")]
        ELSE IF compare_unsigned(exp_sum9, thresh382) >= 0
        THEN [out EXCEPT
                !.bits = pack_f32(Infinity(sign_res)),
                !.flags.overflow = TRUE,
                !.trace = Append(@, "fmul_f32: pre-check exponent overflow")]
        ELSE IF sub.borrow_out = 1
        THEN [out EXCEPT
                !.bits = pack_f32(Zero(sign_res)),
                !.flags.underflow = TRUE,
                !.trace = Append(@,
                    "fmul_f32: exponent underflow before normalization")]
        ELSE IF high /\ inc.carry_out = 1
        THEN [out EXCEPT
                !.bits = pack_f32(Infinity(sign_res)),
                !.flags.overflow = TRUE,
                !.trace = Append(Append(@, "fmul_f32: after significand multiply"),
                                 "fmul_f32: exponent overflow after normalization")]
        ELSE IF bits_all_zero(exp_res)
        THEN [out EXCEPT
                !.bits = pack_f32(Zero(sign_res)),
                !.flags.underflow = TRUE,
                !.trace = Append(Append(@, "fmul_f32: after significand multiply"),
                                 "fmul_f32: underflow to zero")]
        ELSE IF bits_all_ones(exp_res)
        THEN [out EXCEPT
                !.bits = pack_f32(Infinity(sign_res)),
                !.flags.overflow = TRUE,
                !.trace = Append(Append(@, "fmul_f32: after significand multiply"),
                                 "fmul_f32: overflow to inf")]
        ELSE [out EXCEPT
                !.bits = pack_f32([sign |-> sign_res, exponent |-> exp_res,
                                   fraction |-> SubSeq(sig_res, 1, FRAC_BITS)]),
                !.trace = Append(Append(@, "fmul_f32: after significand multiply"),
                                 "fmul_f32: normal finite result")]

(* --------------------------- the FPU as machines ---------------------- *)

\* a bit pattern of full width, or a shorter one as bv_from_hex_string
\* returns it after trimming
InitFields ==
    /\ pc = "ready"
    /\ \E w \in 0..F32_BITS : \E p \in BitsOfWidth(w) :
         args = [unit |-> "f32fields", p |-> p]
    /\ ret = NoRet

UnpackF32 ==
    /\ pc = "ready"
    /\ args.unit = "f32fields"
    /\ ret' = [fn |-> "unpack_f32", res |-> unpack_f32(args.p)]
    /\ pc' = "unpacked"
    /\ UNCHANGED args

\* pack_f32 on the fields unpack_f32 returned
PackF32 ==
    /\ pc = "unpacked"
    /\ ret.fn = "unpack_f32"
    /\ ret' = [fn |-> "pack_f32", f |-> ret.res, res |-> pack_f32(ret.res)]
    /\ pc' = "done"
    /\ UNCHANGED args

NextFields == UnpackF32 \/ PackF32

SpecFields == InitFields /\ [][NextFields]_vars

InitFPU ==
    /\ pc = "ready"
    /\ \E a \in BitsOfWidth(F32_BITS), b \in BitsOfWidth(F32_BITS) :
         args = [unit |-> "fpu", a |-> a, b |-> b]
    /\ ret = NoRet

FaddF32 ==
    /\ pc = "ready"
    /\ args.unit = "fpu"
    /\ ret' = [fn |-> "fadd_f32", res |-> fadd_f32(args.a, args.b)]
    /\ pc' = "done"
    /\ UNCHANGED args

FsubF32 ==
    /\ pc = "ready"
    /\ args.unit = "fpu"
    /\ ret' = [fn |-> "fsub_f32", res |-> fsub_f32(args.a, args.b)]
    /\ pc' = "done"
    /\ UNCHANGED args

FmulF32 ==
    /\ pc = "ready"
    /\ args.unit = "fpu"
    /\ ret' = [fn |-> "fmul_f32", res |-> fmul_f32(args.a, args.b)]
    /\ pc' = "done"
    /\ UNCHANGED args

NextFPU == FaddF32 \/ FsubF32 \/ FmulF32

SpecFPU == InitFPU /\ [][NextFPU]_vars

(* ---------------------- float fields, for the claims ------------------ *)

\* sign, biased exponent and fraction of a pattern, read off its value
SignOf(p) == Val(zero_extend(p, F32_BITS)) \div Pow2(F32_BITS - 1)
ExpOf(p) == (Val(zero_extend(p, F32_BITS)) \div Pow2(FRAC_BITS)) % Pow2(EXP_BITS)
FracOf(p) == Val(zero_extend(p, F32_BITS)) % Pow2(FRAC_BITS)

ExpMax == Pow2(EXP_BITS) - 1
Bias == Pow2(EXP_BITS - 1) - 1

PatternValue(sign, e, f) ==
    sign * Pow2(F32_BITS - 1) + e * Pow2(FRAC_BITS) + f

IsNaN(p) == ExpOf(p) = ExpMax /\ FracOf(p) # 0
IsInf(p) == ExpOf(p) = ExpMax /\ FracOf(p) = 0
IsZero(p) == ExpOf(p) = 0 /\ FracOf(p) = 0
IsFinite(p) == ExpOf(p) # ExpMax
IsNormal(p) == ExpOf(p) \in 1..(ExpMax - 1)

\* the value of 0x7fc00000: exponent all ones, top fraction bit set
QuietNaN == PatternValue(0, ExpMax, Pow2(FRAC_BITS - 1))

FpuDone(fn) == pc = "done" /\ ret.fn = fn

\* C12: for every pattern p of full width, pack_f32(unpack_f32(p)) = p, and
\* unpack_f32 yields the top bit as sign, the EXP_BITS bits below it as
\* exponent and the low FRAC_BITS bits as fraction.
C12_PackUnpack ==
    /\ (pc = "unpacked" /\ Len(args.p) = F32_BITS) =>
         /\ ret.res.sign = args.p[F32_BITS]
         /\ ret.res.sign = SignOf(args.p)
         /\ Len(ret.res.exponent) = EXP_BITS
         /\ Val(ret.res.exponent) = ExpOf(args.p)
         /\ Len(ret.res.fraction) = FRAC_BITS
         /\ Val(ret.res.fraction) = FracOf(args.p)
    /\ (pc = "done" /\ ret.fn = "pack_f32" /\ Len(args.p) = F32_BITS) =>
         ret.res = args.p

\* a negative pattern with mixed exponent and fraction bits, rebuilt
C12_Witness ==
    /\ pc = "done"
    /\ ret.fn = "pack_f32"
    /\ Len(args.p) = F32_BITS
    /\ SignOf(args.p) = 1
    /\ ExpOf(args.p) = 2
    /\ FracOf(args.p) = 1
    /\ ret.res = args.p

\* C14: fmul_f32 treats special operands in this order: a NaN operand, or an
\* infinity times a zero, gives the quiet NaN pattern with invalid set;
\* otherwise an infinite operand gives infinity with the XOR of the signs and
\* no flag; otherwise a zero operand gives zero with the XOR of the signs and
\* no flag.
C14_FmulSpecials ==
    FpuDone("fmul_f32") =>
      LET a == args.a
          b == args.b
          r == ret.res
          s == Xor(SignOf(a), SignOf(b))
      IN  IF IsNaN(a) \/ IsNaN(b) \/ (IsInf(a) /\ IsZero(b))
                \/ (IsInf(b) /\ IsZero(a))
          THEN /\ Val(r.bits) = QuietNaN
               /\ r.flags.invalid
          ELSE IF IsInf(a) \/ IsInf(b)
          THEN /\ Len(r.bits) = F32_BITS
               /\ Val(r.bits) = PatternValue(s, ExpMax, 0)
               /\ r.flags = NoFlags
          ELSE IF IsZero(a) \/ IsZero(b)
          THEN /\ Len(r.bits) = F32_BITS
               /\ Val(r.bits) = PatternValue(s, 0, 0)
               /\ r.flags = NoFlags
          ELSE TRUE

\* minus infinity times a positive subnormal: infinity, sign set, no flag
C14_Witness ==
    /\ FpuDone("fmul_f32")
    /\ IsInf(args.a)
    /\ SignOf(args.a) = 1
    /\ ExpOf(args.b) = 0
    /\ FracOf(args.b) = 1
    /\ SignOf(args.b) = 0
    /\ Val(ret.res.bits) = PatternValue(1, ExpMax, 0)
    /\ ret.res.flags = NoFlags

\* significand of a normal operand: the fraction under the implicit 1
SigOf(p) == Pow2(FRAC_BITS) + FracOf(p)

\* 1 when the product of the significands reaches 2^(2*SIG_BITS - 1)
HighOf(a, b) == IF SigOf(a) * SigOf(b) >= Pow2(2 * SIG_BITS - 1) THEN 1 ELSE 0

\* the exponent of the product: expA + expB - bias + h
ProductExp(a, b) == ExpOf(a) + ExpOf(b) - Bias + HighOf(a, b)

\* the FRAC_BITS bits of the product just below its leading 1
ProductFrac(a, b) ==
    ((SigOf(a) * SigOf(b)) \div Pow2(FRAC_BITS + HighOf(a, b))) % Pow2(FRAC_BITS)

\* C15: for normal finite operands whose product exponent
\* E = expA + expB - bias + h lies in 1..ExpMax-1, fmul_f32 returns the XOR
\* of the signs, exponent E and the truncated product fraction, with no flag.
C15_FmulNormal ==
    (/\ FpuDone("fmul_f32")
     /\ IsNormal(args.a)
     /\ IsNormal(args.b)
     /\ ProductExp(args.a, args.b) \in 1..(ExpMax - 1)) =>
      /\ Val(ret.res.bits)
           = PatternValue(Xor(SignOf(args.a), SignOf(args.b)),
                          ProductExp(args.a, args.b),
                          ProductFrac(args.a, args.b))
      /\ ret.res.flags = NoFlags

FpuOps == {"fadd_f32", "fsub_f32", "fmul_f32"}

\* C16: for fadd_f32, fsub_f32 and fmul_f32 on finite operands, a returned
\* pattern with an all-ones exponent comes with overflow set.
C16_OverflowFlagged ==
    (/\ pc = "done"
     /\ ret.fn \in FpuOps
     /\ IsFinite(args.a)
     /\ IsFinite(args.b)
     /\ ExpOf(ret.res.bits) = ExpMax) =>
      ret.res.flags.overflow

\* a normal operand as an integer multiple of the smallest subnormal
Scaled(p) ==
    (IF SignOf(p) = 1 THEN -1 ELSE 1) * SigOf(p) * Pow2(ExpOf(p) - 1)

\* the exact sum or difference of two normal operands, in the same unit
ExactSum(fn, a, b) ==
    IF fn = "fadd_f32" THEN Scaled(a) + Scaled(b) ELSE Scaled(a) - Scaled(b)

\* a non-zero result below the smallest normal number
BelowNormal(fn, a, b) ==
    IF fn = "fmul_f32" THEN ProductExp(a, b) <= 0
    ELSE ExactSum(fn, a, b) # 0 /\ Abs(ExactSum(fn, a, b)) < Pow2(FRAC_BITS)

\* C17: for fadd_f32, fsub_f32 and fmul_f32 on normal finite operands, the
\* returned pattern never has a zero exponent with a non-zero fraction, and
\* a result whose exponent falls to 0 or below is returned as a signed zero
\* with underflow set.
C17_FlushToZero ==
    (/\ pc = "done"
     /\ ret.fn \in FpuOps
     /\ IsNormal(args.a)
     /\ IsNormal(args.b)) =>
      /\ ~(ExpOf(ret.res.bits) = 0 /\ FracOf(ret.res.bits) # 0)
      /\ BelowNormal(ret.fn, args.a, args.b) =>
           /\ ExpOf(ret.res.bits) = 0
           /\ FracOf(ret.res.bits) = 0
           /\ ret.res.flags.underflow

(* ------------------------------ shifter.cpp --------------------------- *)

ShiftOp == {"Sll", "Srl", "Sra"}

\* the shift amount taken as it comes
shift_amount_unmasked(shamt, width) == shamt

\* shamt & 31u: the shift amount modulo the word width
shift_amount(shamt, width) == shamt % width

shifter_execute(value, shamt, op, width) ==
    IF Len(value) # width THEN AssertionFailed
    ELSE LET s == shift_amount(shamt, width)
             sign == value[width]
         IN  CASE op = "Sll" -> Fill(s, 0) \o SubSeq(value, 1, width - s)
               [] op = "Srl" -> SubSeq(value, s + 1, width) \o Fill(s, 0)
               [] op = "Sra" -> SubSeq(value, s + 1, width) \o Fill(s, sign)

(* ------------------------- the shifter as a machine ------------------- *)

InitShifter ==
    /\ pc = "ready"
    /\ \E value \in Word : args = [unit |-> "shifter", value |-> value]
    /\ ret = NoRet

\* one call of shifter_execute on the chosen value
ShifterExecute ==
    /\ pc = "ready"
    /\ args.unit = "shifter"
    /\ \E shamt \in 0..MaxShamt, op \in ShiftOp :
         ret' = [fn |-> "shifter_execute", op |-> op, shamt |-> shamt,
                 value |-> args.value,
                 res |-> shifter_execute(args.value, shamt, op, XLEN)]
    /\ pc' = "shifted"
    /\ UNCHANGED args

\* a left shift undone by a logical right shift of the same amount
ShiftBack ==
    /\ pc = "shifted"
    /\ ret.fn = "shifter_execute"
    /\ ret.op = "Sll"
    /\ ret' = [fn |-> "shifter_execute", op |-> "Srl", shamt |-> ret.shamt,
               value |-> ret.res,
               res |-> shifter_execute(ret.res, ret.shamt, "Srl", XLEN)]
    /\ pc' = "done"
    /\ UNCHANGED args

NextShifter == ShifterExecute \/ ShiftBack

SpecShifter == InitShifter /\ [][NextShifter]_vars

\* floor(v / 2^s) for a signed v
FloorDivPow2(v, s) == IF v >= 0 THEN v \div Pow2(s) ELSE -((-v + Pow2(s) - 1) \div Pow2(s))

\* C13: shifter_execute depends on shamt only through s = shamt mod XLEN
\* (shamt & 31): Sll gives value * 2^s mod 2^XLEN, Srl gives
\* floor(value / 2^s), Sra the same on the signed value; a shift by 0 returns
\* the value for every op; and Srl by s of Sll by s is the value with its top
\* s bits cleared.
C13_Shifts ==
    /\ (pc = "shifted" /\ ret.fn = "shifter_execute") =>
         LET s == ret.shamt % XLEN
             v == args.value
         IN  /\ Len(ret.res) = XLEN
             /\ ret.op = "Sll" => Val(ret.res) = (Val(v) * Pow2(s)) % Pow2(XLEN)
             /\ ret.op = "Srl" => Val(ret.res) = Val(v) \div Pow2(s)
             /\ ret.op = "Sra" => SVal(ret.res) = FloorDivPow2(SVal(v), s)
             /\ s = 0 => ret.res = v
    /\ (pc = "done" /\ ret.fn = "shifter_execute") =>
         LET s == ret.shamt % XLEN
         IN  /\ Len(ret.res) = XLEN
             /\ Val(ret.res) = Val(args.value) % Pow2(XLEN - s)
             /\ \A i \in 1..XLEN :
                  ret.res[i] = IF i > XLEN - s THEN 0 ELSE args.value[i]

\* an all-ones word shifted left and back by an amount above the word width
C13_Witness ==
    /\ pc = "done"
    /\ args.value = AllOnesBits
    /\ ret.shamt = XLEN + 2
    /\ ret.value = <<0, 0>> \o Fill(XLEN - 2, 1)
    /\ ret.res = Fill(XLEN - 2, 1) \o <<0, 0>>

(* ------------------------------ rv32_cpu.cpp -------------------------- *)

(* The CPU computes on uint32_t, not on Bits.  A uint32_t is written as its  *)
(* two 16-bit halves [lo, hi], so that every sum and product stays inside    *)
(* TLC's integers; a uint8_t is a number 0..255.  A mask 2^k - 1 is "% 2^k". *)

NUM_REGS == 32

Half == Pow2(16)

\* the uint32_t with the value n
u32(n) == [lo |-> n % Half, hi |-> (n \div Half) % Half]

\* the carry out of the low half is lost
u32_add_halves_apart(a, b) ==
    [lo |-> (a.lo + b.lo) % Half, hi |-> (a.hi + b.hi) % Half]

\* uint32_t +, - (modulo 2^32)
u32_add(a, b) ==
    [lo |-> (a.lo + b.lo) % Half,
     hi |-> (a.hi + b.hi + ((a.lo + b.lo) \div Half)) % Half]

u32_sub(a, b) ==
    [lo |-> (a.lo - b.lo + Half) % Half,
     hi |-> (a.hi - b.hi - (IF a.lo < b.lo THEN 1 ELSE 0) + Half) % Half]

\* &, | and ^ on the low n bits of two numbers
RECURSIVE bitwise16(_, _, _, _)
bitwise16(op, x, y, n) ==
    IF n = 0 THEN 0
    ELSE (CASE op = "&" -> And(x % 2, y % 2)
            [] op = "|" -> Or(x % 2, y % 2)
            [] op = "^" -> Xor(x % 2, y % 2))
         + 2 * bitwise16(op, x \div 2, y \div 2, n - 1)

bitwise(op, a, b) ==
    [lo |-> bitwise16(op, a.lo, b.lo, 16), hi |-> bitwise16(op, a.hi, b.hi, 16)]

\* w << n and w >> n on uint32_t, and >> on int32_t (arithmetic), 0 <= n <= 31
shift(op, w, n) ==
    CASE op = "<<" ->
           IF n < 16
           THEN [lo |-> (w.lo * Pow2(n)) % Half,
                 hi |-> (w.hi * Pow2(n) + ((w.lo * Pow2(n)) \div Half)) % Half]
           ELSE [lo |-> 0, hi |-> (w.lo * Pow2(n - 16)) % Half]
      [] op = ">>" ->
           IF n < 16
           THEN [lo |-> (w.lo \div Pow2(n)) + (w.hi % Pow2(n)) * Pow2(16 - n),
                 hi |-> w.hi \div Pow2(n)]
           ELSE [lo |-> w.hi \div Pow2(n - 16), hi |-> 0]
      [] op = ">>s" ->
           LET fill == IF w.hi >= Pow2(15) THEN Half - 1 ELSE 0
           IN  IF n < 16
               THEN [lo |-> (w.lo \div Pow2(n)) + (w.hi % Pow2(n)) * Pow2(16 - n),
                     hi |-> (w.hi \div Pow2(n))
                              + (fill % Pow2(n)) * Pow2(16 - n)]
               ELSE [lo |-> (w.hi \div Pow2(n - 16))
                              + (fill % Pow2(n - 16)) * Pow2(32 - n),
                     hi |-> fill]

CpuState(mem_size) ==
    [regs |-> Fill(NUM_REGS, u32(0)), pc |-> u32(0), mem |-> Fill(mem_size, 0)]

reset(s) ==
    [regs |-> Fill(NUM_REGS, u32(0)), pc |-> u32(0), mem |-> Fill(Len(s.mem), 0)]

\* a uint32_t index compared with s.mem.size()
InMem(s, idx) == idx.hi = 0 /\ idx.lo < Len(s.mem)

\* assert(addr + 3 < s.mem.size()): the sum is a uint32_t and wraps
access_ok(s, addr) == InMem(s, u32_add(addr, u32(3)))

\* one of the indices addr + 0 .. addr + 3, each a uint32_t, is outside the
\* vector: operator[] does not check, the access is undefined behaviour
AnyOutside(s, addr) == \E k \in 0..3 : ~InMem(s, u32_add(addr, u32(k)))

\* s.mem[addr + k]; an out-of-range read yields the byte undef
mem_read(s, addr, k, undef) ==
    IF InMem(s, u32_add(addr, u32(k)))
    THEN s.mem[u32_add(addr, u32(k)).lo + 1]
    ELSE undef

load_u32(s, addr, undef) ==
    IF ~access_ok(s, addr)
    THEN [status |-> "assert", value |-> u32(0), oob |-> FALSE]
    ELSE [status |-> "ok",
          value |-> [lo |-> mem_read(s, addr, 0, undef)
                              + Pow2(8) * mem_read(s, addr, 1, undef),
                     hi |-> mem_read(s, addr, 2, undef)
                              + Pow2(8) * mem_read(s, addr, 3, undef)],
          oob |-> AnyOutside(s, addr)]

\* the four byte writes of store_u32 and load_program, from byte k on; a
\* write outside the vector does not land in it
RECURSIVE store_bytes(_, _, _, _)
store_bytes(s, addr, value, k) ==
    IF k > 3 THEN s.mem
    ELSE LET idx == u32_add(addr, u32(k))
             byte == CASE k = 0 -> value.lo % Pow2(8)
                       [] k = 1 -> value.lo \div Pow2(8)
                       [] k = 2 -> value.hi % Pow2(8)
                       [] k = 3 -> value.hi \div Pow2(8)
         IN  store_bytes(IF InMem(s, idx)
                         THEN [s EXCEPT !.mem[idx.lo + 1] = byte]
                         ELSE s,
                         addr, value, k + 1)

\* the four bytes are written most significant first
store_u32_big_endian(s, addr, value) ==
    IF ~access_ok(s, addr)
    THEN [status |-> "assert", mem |-> s.mem, oob |-> FALSE]
    ELSE [status |-> "ok",
          mem |-> store_bytes(s, addr,
                              [lo |-> (value.hi \div Pow2(8))
                                        + Pow2(8) * (value.hi % Pow2(8)),
                               hi |-> (value.lo \div Pow2(8))
                                        + Pow2(8) * (value.lo % Pow2(8))], 0),
          oob |-> AnyOutside(s, addr)]

store_u32(s, addr, value) ==
    IF ~access_ok(s, addr)
    THEN [status |-> "assert", mem |-> s.mem, oob |-> FALSE]
    ELSE [status |-> "ok", mem |-> store_bytes(s, addr, value, 0),
          oob |-> AnyOutside(s, addr)]

RECURSIVE load_program_loop(_, _, _)
load_program_loop(s, words, addr) ==
    IF Len(words) = 0 THEN [status |-> "ok", s |-> s]
    ELSE IF ~access_ok(s, addr) THEN [status |-> "assert", s |-> s]
    ELSE load_program_loop(
             [s EXCEPT !.mem = store_bytes(s, addr, Head(words), 0)],
             Tail(words), u32_add(addr, u32(4)))

load_program(s, words, base_addr) ==
    LET loaded == load_program_loop(s, words, base_addr)
    IN  IF loaded.status = "ok"
        THEN [loaded EXCEPT !.s.pc = base_addr]
        ELSE loaded

\* (static_cast<int32_t>(x) << shift) >> shift with shift = 32 - bits
sign_extend_imm(x, bits) ==
    shift(">>s", shift("<<", x, 32 - bits), 32 - bits)

read_reg(s, idx) == IF idx = 0 THEN u32(0) ELSE s.regs[idx + 1]

\* every write is discarded, not only those to x0
write_reg_discards_all(regs, idx, value) == regs

\* the write goes through for x0 as well
write_reg_no_x0_guard(regs, idx, value) == [regs EXCEPT ![idx + 1] = value]

write_reg(regs, idx, value) ==
    IF idx = 0 THEN regs ELSE [regs EXCEPT ![idx + 1] = value]

\* case 0x13: the register file after an OP-IMM instruction
exec_op_imm(s, instr) ==
    LET rd == shift(">>", instr, 7).lo % 32
        funct3 == shift(">>", instr, 12).lo % 8
        rs1 == shift(">>", instr, 15).lo % 32
        funct7 == shift(">>", instr, 25).lo % 128
        imm == sign_extend_imm(shift(">>", instr, 20), 12)
        val1 == read_reg(s, rs1)
        shamt == shift(">>", instr, 20).lo % 32
    IN  CASE funct3 = 0 -> write_reg(s.regs, rd, u32_add(val1, imm))
          [] funct3 = 7 -> write_reg(s.regs, rd, bitwise("&", val1, imm))
          [] funct3 = 6 -> write_reg(s.regs, rd, bitwise("|", val1, imm))
          [] funct3 = 4 -> write_reg(s.regs, rd, bitwise("^", val1, imm))
          [] funct3 = 1 -> write_reg(s.regs, rd, shift("<<", val1, shamt))
          [] funct3 = 5 ->
                IF funct7 = \H00
                THEN write_reg(s.regs, rd, shift(">>", val1, shamt))
                ELSE IF funct7 = \H20
                THEN write_reg(s.regs, rd, shift(">>s", val1, shamt))
                ELSE s.regs
          [] OTHER -> s.regs

\* case 0x33: the register file after an OP instruction
exec_op(s, instr) ==
    LET rd == shift(">>", instr, 7).lo % 32
        funct3 == shift(">>", instr, 12).lo % 8
        rs1 == shift(">>", instr, 15).lo % 32
        rs2 == shift(">>", instr, 20).lo % 32
        funct7 == shift(">>", instr, 25).lo % 128
        val1 == read_reg(s, rs1)
        val2 == read_reg(s, rs2)
        shamt == val2.lo % 32
    IN  CASE funct3 = 0 ->
                IF funct7 = \H00 THEN write_reg(s.regs, rd, u32_add(val1, val2))
                ELSE IF funct7 = \H20
                THEN write_reg(s.regs, rd, u32_sub(val1, val2))
                ELSE s.regs
          [] funct3 = 7 -> write_reg(s.regs, rd, bitwise("&", val1, val2))
          [] funct3 = 6 -> write_reg(s.regs, rd, bitwise("|", val1, val2))
          [] funct3 = 4 -> write_reg(s.regs, rd, bitwise("^", val1, val2))
          [] funct3 = 1 -> write_reg(s.regs, rd, shift("<<", val1, shamt))
          [] funct3 = 5 ->
                IF funct7 = \H00
                THEN write_reg(s.regs, rd, shift(">>", val1, shamt))
                ELSE IF funct7 = \H20
                THEN write_reg(s.regs, rd, shift(">>s", val1, shamt))
                ELSE s.regs
          [] OTHER -> s.regs

\* One call of step.  The outcome is the state it leaves, whether it ran to
\* the end ("ok") or stopped at an assert, the word it fetched, whether a
\* byte outside the memory vector was touched, and the effective address of
\* the data access if there was one (<<>> if none).  A step stopped at the
\* alignment assert has fetched no word (instr is 0).  undef is the byte an
\* out-of-range read yields.
step(s, undef) ==
    LET fetch == load_u32(s, s.pc, undef)
        instr == fetch.value
        opcode == instr.lo % 128
        rd == shift(">>", instr, 7).lo % 32
        funct3 == shift(">>", instr, 12).lo % 8
        rs1 == shift(">>", instr, 15).lo % 32
        rs2 == shift(">>", instr, 20).lo % 32
        pc4 == u32_add(s.pc, u32(4))
        imm_i == sign_extend_imm(shift(">>", instr, 20), 12)
        imm_s == sign_extend_imm(
                     u32(shift(">>", instr, 25).lo * 32
                           + (shift(">>", instr, 7).lo % 32)), 12)
        offset_b == sign_extend_imm(
                        u32((shift(">>", instr, 31).lo % 2) * Pow2(12)
                              + (shift(">>", instr, 7).lo % 2) * Pow2(11)
                              + (shift(">>", instr, 25).lo % 64) * 32
                              + (shift(">>", instr, 8).lo % 16) * 2), 13)
        offset_j == sign_extend_imm(
                        u32((shift(">>", instr, 31).lo % 2) * Pow2(20)
                              + (shift(">>", instr, 12).lo % 256) * Pow2(12)
                              + (shift(">>", instr, 20).lo % 2) * Pow2(11)
                              + (shift(">>", instr, 21).lo % 1024) * 2), 21)
        imm20 == [lo |-> instr.lo - (instr.lo % Pow2(12)), hi |-> instr.hi]
        val1 == read_reg(s, rs1)
        val2 == read_reg(s, rs2)
        Done(regs, mem, next_pc) ==
            [status |-> "ok", s |-> [regs |-> regs, pc |-> next_pc, mem |-> mem],
             instr |-> instr, oob |-> fetch.oob, addr |-> <<>>]
        Stop(oob, addr) ==
            [status |-> "assert", s |-> s, instr |-> instr, oob |-> oob,
             addr |-> addr]
    IN  IF s.pc.lo % 4 # 0
        THEN [status |-> "assert", s |-> s, instr |-> u32(0), oob |-> FALSE,
              addr |-> <<>>]
        ELSE IF fetch.status # "ok" THEN Stop(fetch.oob, <<>>)
        ELSE CASE opcode = \H13 -> Done(exec_op_imm(s, instr), s.mem, pc4)
               [] opcode = \H33 -> Done(exec_op(s, instr), s.mem, pc4)
               [] opcode = \H03 ->
                    LET addr == u32_add(val1, imm_i)
                        ld == load_u32(s, addr, undef)
                    IN  IF funct3 # 2 THEN Done(s.regs, s.mem, pc4)
                        ELSE IF ld.status # "ok" THEN Stop(fetch.oob, <<addr>>)
                        ELSE [Done(write_reg(s.regs, rd, ld.value), s.mem, pc4)
                                EXCEPT !.oob = fetch.oob \/ ld.oob,
                                       !.addr = <<addr>>]
               [] opcode = \H23 ->
                    LET addr == u32_add(val1, imm_s)
                        st == store_u32(s, addr, val2)
                    IN  IF funct3 # 2 THEN Done(s.regs, s.mem, pc4)
                        ELSE IF st.status # "ok" THEN Stop(fetch.oob, <<addr>>)
                        ELSE [Done(s.regs, st.mem, pc4)
                                EXCEPT !.oob = fetch.oob \/ st.oob,
                                       !.addr = <<addr>>]
               [] opcode = \H63 ->
                    LET take == CASE funct3 = 0 -> val1 = val2
                                  [] funct3 = 1 -> val1 # val2
                                  [] OTHER -> FALSE
                    IN  Done(s.regs, s.mem,
                             IF take THEN u32_add(s.pc, offset_b) ELSE pc4)
               [] opcode = \H6F ->
                    Done(write_reg(s.regs, rd, pc4), s.mem,
                         u32_add(s.pc, offset_j))
               [] opcode = \H67 ->
                    LET target == u32_add(val1, imm_i)
                    IN  Done(write_reg(s.regs, rd, pc4), s.mem,
                             [target EXCEPT !.lo = @ - (@ % 2)])
               [] opcode = \H17 ->
                    Done(write_reg(s.regs, rd, u32_add(s.pc, imm20)), s.mem, pc4)
               [] opcode = \H37 ->
                    Done(write_reg(s.regs, rd, imm20), s.mem, pc4)
               [] OTHER -> Done(s.regs, s.mem, pc4)

\* at most one call of step, whatever max_steps
run_single_step(s, max_steps, undef) ==
    IF max_steps = 0
    THEN [status |-> "ok", s |-> s, oob |-> FALSE, executed |-> 0]
    ELSE LET out == step(s, undef)
         IN  [status |-> out.status, s |-> out.s, oob |-> out.oob,
              executed |-> IF out.status = "ok" THEN 1 ELSE 0]

\* run: max_steps calls of step, one after the other.  The outcome is the
\* state it leaves, whether every step ran to the end, how many did, and
\* whether one of them touched a byte outside the memory vector.
RECURSIVE run(_, _, _)
\* one iteration of run's loop, out being what its call of step did: a failed
\* assert ends the program, otherwise the loop goes on from the new state
run_iteration(out, s, max_steps, undef) ==
    IF out.status # "ok"
    THEN [status |-> "assert", s |-> s, oob |-> out.oob, executed |-> 0]
    ELSE [run(out.s, max_steps - 1, undef)
            EXCEPT !.oob = @ \/ out.oob, !.executed = @ + 1]

run(s, max_steps, undef) ==
    IF max_steps = 0
    THEN [status |-> "ok", s |-> s, oob |-> FALSE, executed |-> 0]
    ELSE run_iteration(step(s, undef), s, max_steps, undef)

(* --------------------------- the CPU as a machine --------------------- *)

\* the instruction word with the given fields
Encode(opcode, rd, funct3, rs1, rs2, funct7) ==
    [lo |-> opcode + Pow2(7) * rd + Pow2(12) * funct3 + Pow2(15) * (rs1 % 2),
     hi |-> (rs1 \div 2) + Pow2(4) * rs2 + Pow2(9) * funct7]

\* The instruction words given to the CPU: every opcode of the decoder and
\* one it does not know, every funct3, three funct7 values (0x7f also makes
\* the I-, S-, B- and J-type immediates negative), and register fields
\* <<rd, rs1, rs2>> that double as immediate bits: x0 in each place, rd equal
\* to and different from the sources, 29 with funct7 0x7f for the immediate
\* -3, 2 for branch and jump offsets that are not multiples of 4, 31 for the
\* largest shift amount.
InstrWords ==
    {Encode(opcode, r[1], funct3, r[2], r[3], funct7) :
        opcode \in {\H13, \H33, \H03, \H23, \H63, \H6F, \H67, \H17, \H37, \H0F},
        funct3 \in 0..7, funct7 \in {\H00, \H20, \H7F},
        r \in {<<0, 0, 0>>, <<0, 1, 1>>, <<1, 0, 29>>, <<29, 0, 0>>,
               <<1, 0, 4>>, <<4, 0, 1>>, <<29, 1, 1>>, <<1, 1, 1>>,
               <<2, 1, 2>>, <<8, 1, 0>>, <<29, 1, 31>>, <<1, 1, 4>>}}

\* addi x1, x0, 1; addi x1, x0, -3; lui x1, 0x80000
SetupWords ==
    {Encode(\H13, 1, 0, 0, 1, \H00), Encode(\H13, 1, 0, 0, 29, \H7F),
     Encode(\H37, 1, 0, 0, 0, \H40)}

\* a word alone, a word after one that sets x1, and sw x1, 4(x0) followed
\* by lw x29, 4(x0) or lw x29, 0(x0)
Programs ==
    {<<w>> : w \in InstrWords}
      \cup {<<u, w>> : u \in SetupWords, w \in InstrWords}
      \cup {<<u, Encode(\H23, 4, 2, 0, 1, \H00), Encode(\H03, 29, 2, 0, i, \H00)>> :
                u \in SetupWords, i \in {0, 4}}

InitCPU ==
    /\ pc = "constructed"
    /\ args = [unit |-> "cpu", s |-> CpuState(MemSize), n |-> 0]
    /\ ret = NoRet

Reset ==
    /\ pc \in {"constructed", "loaded", "running"}
    /\ args.unit = "cpu"
    /\ args' = [args EXCEPT !.s = reset(args.s), !.n = 0]
    /\ ret' = [fn |-> "reset"]
    /\ pc' = "constructed"

\* load_program on a fresh or reset CpuState, at address 0 or 4
LoadProgram ==
    /\ pc = "constructed"
    /\ args.unit = "cpu"
    /\ \E words \in Programs, base \in {0, 4} :
         LET out == load_program(args.s, words, u32(base))
         IN  /\ base = 0 \/ Len(words) # 2
             /\ args' = [args EXCEPT !.s = out.s]
             /\ ret' = [fn |-> "load_program", status |-> out.status]
             /\ pc' = IF out.status = "ok" THEN "loaded" ELSE "failed"

\* One call of step.  A failed assert ends the run; after an access outside
\* the memory vector the byte read is any byte, and the process may go on or
\* crash.
Step ==
    /\ pc \in {"constructed", "loaded", "running"}
    /\ args.unit = "cpu"
    /\ args.n < MaxSteps
    /\ LET out0 == step(args.s, 0)
       IN  \E out \in (IF out0.oob THEN {out0, step(args.s, Pow2(8) - 1)}
                       ELSE {out0}),
              crash \in BOOLEAN :
             /\ crash => out.oob
             /\ args' = [args EXCEPT !.s = out.s, !.n = @ + 1]
             /\ ret' = [fn |-> "step", before |-> args.s, instr |-> out.instr,
                        status |-> out.status, oob |-> out.oob,
                        addr |-> out.addr]
             /\ pc' = IF out.status # "ok" THEN "failed"
                      ELSE IF crash THEN "crashed"
                      ELSE "running"

\* One call of run on a loaded program, with max_steps up to MaxSteps.
Run ==
    /\ pc = "loaded"
    /\ args.unit = "cpu"
    /\ \E max_steps \in 0..MaxSteps :
         LET out0 == run(args.s, max_steps, 0)
         IN  \E out \in (IF out0.oob
                         THEN {out0, run(args.s, max_steps, Pow2(8) - 1)}
                         ELSE {out0}),
                crash \in BOOLEAN :
               /\ crash => out.oob
               /\ args' = [args EXCEPT !.s = out.s, !.n = MaxSteps]
               /\ ret' = [fn |-> "run", before |-> args.s,
                          max_steps |-> max_steps, status |-> out.status,
                          oob |-> out.oob, executed |-> out.executed]
               /\ pc' = IF out.status # "ok" THEN "failed"
                        ELSE IF crash THEN "crashed"
                        ELSE "running"

NextCPU == Reset \/ LoadProgram \/ Step \/ Run

SpecCPU == InitCPU /\ [][NextCPU]_vars

(* ------------------------ the CPU, for the claims --------------------- *)

\* the fields of an instruction word, as numbers
OpcodeOf(instr) == instr.lo % Pow2(7)
RdOf(instr) == (instr.lo \div Pow2(7)) % Pow2(5)
Funct3Of(instr) == (instr.lo \div Pow2(12)) % Pow2(3)
Rs1Of(instr) == (instr.lo \div Pow2(15)) + 2 * (instr.hi % Pow2(4))
Rs2Of(instr) == (instr.hi \div Pow2(4)) % Pow2(5)
Funct7Of(instr) == instr.hi \div Pow2(9)

\* the I-type immediate: bits 20..31 of the word, sign-extended to 32 bits
ImmI(instr) ==
    IF instr.hi \div Pow2(4) >= Pow2(11)
    THEN [lo |-> Half - Pow2(12) + (instr.hi \div Pow2(4)), hi |-> Half - 1]
    ELSE [lo |-> instr.hi \div Pow2(4), hi |-> 0]

\* addr .. addr + 3 are all below size
AllFourInside(addr, size) == addr.hi = 0 /\ addr.lo + 3 < size

\* the step fetched its instruction and ran to the end
Stepped == args.unit = "cpu" /\ ret.fn = "step" /\ ret.status = "ok"

\* the register file with x0 holding v
WithX0(s, v) == [s EXCEPT !.regs[1] = v]

\* C18: regs[0] is 0 in every state reached from a constructed or reset
\* CpuState by load_program and steps; an instruction with rd = x0 (JAL and
\* JALR included) leaves the register file as it was; and x0 read as a source
\* gives 0: addi rd, x0, imm writes imm, add rd, x0, rs2 writes rs2, jalr
\* through x0 jumps to imm & ~1, and no step depends on what the array
\* element behind x0 holds.
C18_X0HardWired ==
    /\ args.unit = "cpu" => args.s.regs[1] = u32(0)
    /\ (Stepped /\ RdOf(ret.instr) = 0) => args.s.regs = ret.before.regs
    /\ (Stepped /\ Rs1Of(ret.instr) = 0 /\ RdOf(ret.instr) # 0) =>
         /\ (OpcodeOf(ret.instr) = \H13 /\ Funct3Of(ret.instr) = 0) =>
              args.s.regs[RdOf(ret.instr) + 1] = ImmI(ret.instr)
         /\ (/\ OpcodeOf(ret.instr) = \H33
             /\ Funct3Of(ret.instr) = 0
             /\ Funct7Of(ret.instr) = 0) =>
              args.s.regs[RdOf(ret.instr) + 1]
                = ret.before.regs[Rs2Of(ret.instr) + 1]
    /\ (Stepped /\ Rs1Of(ret.instr) = 0 /\ OpcodeOf(ret.instr) = \H67
            /\ Funct3Of(ret.instr) = 0) =>
         args.s.pc = [ImmI(ret.instr) EXCEPT !.lo = @ - (@ % 2)]
    /\ (Stepped /\ ~ret.oob) =>
         step(WithX0(ret.before, u32(Half - 1)), 0).s
           = WithX0(args.s, u32(Half - 1))

\* add x0, x1, x1 after addi x1, x0, 1: the sum 2 is discarded
C18_Witness ==
    /\ Stepped
    /\ ret.instr = Encode(\H33, 0, 0, 1, 1, \H00)
    /\ ret.before.regs[2] = u32(1)
    /\ args.s.regs = ret.before.regs
    /\ args.s.regs[1] = u32(0)
    /\ args.s.pc = u32(8)

\* C19: a fetch, LW or SW whose four byte addresses are not all inside the
\* memory stops at the assert, whatever the 32-bit address, and no step
\* touches a byte outside the memory vector.
C19_AccessInBounds ==
    (args.unit = "cpu" /\ ret.fn = "step") =>
      /\ ~ret.oob
      /\ ~AllFourInside(ret.before.pc, Len(ret.before.mem)) =>
           ret.status = "assert"
      /\ (ret.addr # <<>> /\ ~AllFourInside(ret.addr[1], Len(ret.before.mem))) =>
           ret.status = "assert"

\* the table of supported opcode/funct3/funct7 combinations
Supported(instr) ==
    LET opcode == OpcodeOf(instr)
        funct3 == Funct3Of(instr)
        funct7 == Funct7Of(instr)
    IN  \/ /\ opcode = \H13
           /\ \/ funct3 \in {0, 7, 6, 4}
              \/ funct3 = 1 /\ funct7 = \H00
              \/ funct3 = 5 /\ funct7 \in {\H00, \H20}
        \/ /\ opcode = \H33
           /\ \/ funct3 = 0 /\ funct7 \in {\H00, \H20}
              \/ funct3 \in {7, 6, 4}
              \/ funct3 = 1 /\ funct7 = \H00
              \/ funct3 = 5 /\ funct7 \in {\H00, \H20}
        \/ opcode = \H03 /\ funct3 = 2
        \/ opcode = \H23 /\ funct3 = 2
        \/ opcode = \H63 /\ funct3 \in {0, 1}
        \/ opcode = \H6F
        \/ opcode = \H67 /\ funct3 = 0
        \/ opcode = \H17
        \/ opcode = \H37

\* the instruction was fetched: the PC is aligned and inside the memory
Fetched ==
    /\ args.unit = "cpu"
    /\ ret.fn = "step"
    /\ ret.before.pc.lo % 4 = 0
    /\ AllFourInside(ret.before.pc, Len(ret.before.mem))

\* C20: an instruction word outside the supported table leaves every register
\* and every memory byte unchanged and sets the PC to PC + 4.
C20_UnsupportedIsNop ==
    (Fetched /\ ~Supported(ret.instr)) =>
      /\ ret.status = "ok"
      /\ args.s.regs = ret.before.regs
      /\ args.s.mem = ret.before.mem
      /\ args.s.pc = u32_add(ret.before.pc, u32(4))

\* the call of run returned
Ran == args.unit = "cpu" /\ ret.fn = "run"

\* the state after n serial calls of step on s, none touching a byte outside
\* the memory
RECURSIVE SerialSteps(_, _)
SerialSteps(s, n) == IF n = 0 THEN s ELSE step(SerialSteps(s, n - 1), 0).s

\* C21: when none of its steps fails or leaves the memory, run(s, N) has
\* made N steps and leaves the registers, PC and memory that N serial calls
\* of step leave; run(s, 0) leaves the state as it was.
C21_RunIsSerialSteps ==
    (Ran /\ ret.status = "ok" /\ ~ret.oob) =>
      /\ ret.executed = ret.max_steps
      /\ args.s = SerialSteps(ret.before, ret.max_steps)
      /\ ret.max_steps = 0 => args.s = ret.before

\* run(s, 3) on addi x1, x0, 1; sw x1, 4(x0); lw x29, 4(x0)
C21_Witness ==
    /\ Ran
    /\ ret.status = "ok"
    /\ ~ret.oob
    /\ ret.max_steps = 3
    /\ ret.before.pc = u32(0)
    /\ args.s.pc = u32(12)
    /\ args.s.regs[30] = u32(1)

\* C22: when the PC points outside the memory before max_steps steps have
\* been made, run returns without a failure, with the state the last
\* executed step left.
C22_RunStopsOutsideMemory ==
    (Ran /\ ret.executed < ret.max_steps /\ ~InMem(args.s, args.s.pc)) =>
      /\ ret.status = "ok"
      /\ args.s = SerialSteps(ret.before, ret.executed)

\* the S-type immediate: funct7 over the rd field, sign-extended to 32 bits
ImmS(instr) ==
    LET n == Funct7Of(instr) * Pow2(5) + RdOf(instr)
    IN  IF n >= Pow2(11)
        THEN [lo |-> Half - Pow2(12) + n, hi |-> Half - 1]
        ELSE [lo |-> n, hi |-> 0]

\* byte k (0 the least significant) of a 32-bit value
ByteOf(v, k) ==
    CASE k = 0 -> v.lo % Pow2(8)
      [] k = 1 -> v.lo \div Pow2(8)
      [] k = 2 -> v.hi % Pow2(8)
      [] k = 3 -> v.hi \div Pow2(8)

IsSW(instr) == OpcodeOf(instr) = \H23 /\ Funct3Of(instr) = 2
IsLW(instr) == OpcodeOf(instr) = \H03 /\ Funct3Of(instr) = 2

\* the step just made was an SW to an address with all four bytes in memory
StoredInRange ==
    /\ Stepped
    /\ IsSW(ret.instr)
    /\ AllFourInside(u32_add(ret.before.regs[Rs1Of(ret.instr) + 1],
                             ImmS(ret.instr)),
                     Len(ret.before.mem))

\* what an in-range SW leaves, and what every other instruction leaves
SwFrame ==
    /\ StoredInRange =>
         LET addr == u32_add(ret.before.regs[Rs1Of(ret.instr) + 1],
                             ImmS(ret.instr))
             val == ret.before.regs[Rs2Of(ret.instr) + 1]
         IN  /\ ret.addr = <<addr>>
             /\ \A i \in 1..Len(args.s.mem) :
                  args.s.mem[i] =
                    IF i - 1 \in addr.lo..(addr.lo + 3)
                    THEN ByteOf(val, i - 1 - addr.lo)
                    ELSE ret.before.mem[i]
             /\ args.s.regs = ret.before.regs
    /\ (Stepped /\ ~IsSW(ret.instr)) => args.s.mem = ret.before.mem

\* an LW that follows an in-range SW and reads the address it wrote
LwAfterSw ==
    (/\ StoredInRange
     /\ ret'.fn = "step"
     /\ ret'.status = "ok"
     /\ IsLW(ret'.instr)
     /\ ret'.addr = ret.addr
     /\ RdOf(ret'.instr) # 0) =>
       args'.s.regs[RdOf(ret'.instr) + 1]
         = ret.before.regs[Rs2Of(ret.instr) + 1]

\* C23: an SW to an in-range address rs1 + imm writes the four bytes of rs2,
\* least significant first, and changes no other byte and no register; no
\* other instruction changes a memory byte; and an LW from that address in
\* the next step loads the value stored.
C23_StoreLoad == []SwFrame /\ [][LwAfterSw]_vars

\* lw x29, 4(x0) right after addi x1, x0, -3 and sw x1, 4(x0)
C23_Witness ==
    /\ Stepped
    /\ ret.instr = Encode(\H03, 29, 2, 0, 4, \H00)
    /\ SubSeq(args.s.mem, 5, 8) = <<253, 255, 255, 255>>
    /\ args.s.regs[2] = [lo |-> Half - 3, hi |-> Half - 1]
    /\ args.s.regs[30] = args.s.regs[2]
    /\ args.s.pc = u32(12)

\* the bits-wide two's-complement number n as a 32-bit value
SignExt(n, bits) ==
    IF n >= Pow2(bits - 1) THEN u32_sub(u32(n), u32(Pow2(bits))) ELSE u32(n)

\* the B-type offset: bits 31, 7, 30..25 and 11..8 of the word, times 2
ImmB(instr) ==
    SignExt((Funct7Of(instr) \div Pow2(6)) * Pow2(12)
              + (RdOf(instr) % 2) * Pow2(11)
              + (Funct7Of(instr) % Pow2(6)) * Pow2(5)
              + (RdOf(instr) \div 2) * 2, 13)

\* the J-type offset: bits 31, 19..12, 20 and 30..21 of the word, times 2
ImmJ(instr) ==
    SignExt((Funct7Of(instr) \div Pow2(6)) * Pow2(20)
              + (Funct3Of(instr) + Pow2(3) * Rs1Of(instr)) * Pow2(12)
              + (Rs2Of(instr) % 2) * Pow2(11)
              + ((Rs2Of(instr) \div 2) + Pow2(4) * (Funct7Of(instr) % Pow2(6)))
                  * 2, 21)

IsBEQ(instr) == OpcodeOf(instr) = \H63 /\ Funct3Of(instr) = 0
IsBNE(instr) == OpcodeOf(instr) = \H63 /\ Funct3Of(instr) = 1
IsJAL(instr) == OpcodeOf(instr) = \H6F
IsJALR(instr) == OpcodeOf(instr) = \H67 /\ Funct3Of(instr) = 0

\* the PC a step from before with the word instr must leave
ExpectedPc(before, instr) ==
    LET val1 == before.regs[Rs1Of(instr) + 1]
        val2 == before.regs[Rs2Of(instr) + 1]
        target == u32_add(val1, ImmI(instr))
    IN  IF (IsBEQ(instr) /\ val1 = val2) \/ (IsBNE(instr) /\ val1 # val2)
        THEN u32_add(before.pc, ImmB(instr))
        ELSE IF IsJAL(instr) THEN u32_add(before.pc, ImmJ(instr))
        ELSE IF IsJALR(instr) THEN [target EXCEPT !.lo = @ - (@ % 2)]
        ELSE u32_add(before.pc, u32(4))

\* C24: a step from PC = p leaves p + 4, except a taken BEQ or BNE (p plus
\* the B-type offset), JAL (p plus the J-type offset) and JALR ((rs1 + imm)
\* with bit 0 cleared); BEQ and BNE change no register and no memory byte.
C24_NextPc ==
    Stepped =>
      /\ args.s.pc = ExpectedPc(ret.before, ret.instr)
      /\ (IsBEQ(ret.instr) \/ IsBNE(ret.instr)) =>
           /\ args.s.regs = ret.before.regs
           /\ args.s.mem = ret.before.mem

\* C25: JAL and JALR leave PC + 4 of the jump in rd (and change no other
\* register); JALR jumps to (rs1 + imm) & ~1 computed from the value rs1 held
\* before the step, also when rd = rs1.
C25_LinkRegister ==
    (Stepped /\ (IsJAL(ret.instr) \/ IsJALR(ret.instr))) =>
      /\ RdOf(ret.instr) # 0 =>
           args.s.regs =
             [ret.before.regs EXCEPT ![RdOf(ret.instr) + 1] =
                                        u32_add(ret.before.pc, u32(4))]
      /\ IsJALR(ret.instr) =>
           LET target == u32_add(ret.before.regs[Rs1Of(ret.instr) + 1],
                                 ImmI(ret.instr))
           IN  args.s.pc = [target EXCEPT !.lo = @ - (@ % 2)]

\* jalr x1, 4(x1) at PC 4 with x1 = -3: the jump goes to (-3 + 4) & ~1 = 0
\* and x1 ends up holding 8
C25_Witness ==
    /\ Stepped
    /\ ret.instr = Encode(\H67, 1, 0, 1, 4, \H00)
    /\ ret.before.pc = u32(4)
    /\ ret.before.regs[2] = [lo |-> Half - 3, hi |-> Half - 1]
    /\ args.s.regs[2] = u32(8)
    /\ args.s.pc = u32(0)

\* fmul_f32 returned at its flush before the significands are multiplied
FlushedBeforeNormalization ==
    ret.res.trace[Len(ret.res.trace)]
      = "fmul_f32: exponent underflow before normalization"

\* C26: for finite non-zero operands of fmul_f32, expA + expB at or above
\* all-ones + bias (382) gives infinity with the XOR of the signs and
\* overflow set; below it, the flush to a signed zero with underflow before
\* the normalization happens exactly when expA + expB is below the bias (127).
C26_FmulExponentPrecheck ==
    (/\ FpuDone("fmul_f32")
     /\ IsFinite(args.a) /\ ~IsZero(args.a)
     /\ IsFinite(args.b) /\ ~IsZero(args.b)) =>
      LET s == Xor(SignOf(args.a), SignOf(args.b))
          sum == ExpOf(args.a) + ExpOf(args.b)
      IN  IF sum >= ExpMax + Bias
          THEN /\ Val(ret.res.bits) = PatternValue(s, ExpMax, 0)
               /\ ret.res.flags.overflow
          ELSE /\ FlushedBeforeNormalization <=> sum < Bias
               /\ FlushedBeforeNormalization =>
                    /\ Val(ret.res.bits) = PatternValue(s, 0, 0)
                    /\ ret.res.flags.underflow

\* fadd_f32 on operands of opposite sign, or fsub_f32 on operands of the
\* same sign, all normal
DifferentSignCase ==
    /\ pc = "done"
    /\ \/ ret.fn = "fadd_f32" /\ SignOf(args.a) # SignOf(args.b)
       \/ ret.fn = "fsub_f32" /\ SignOf(args.a) = SignOf(args.b)
    /\ IsNormal(args.a)
    /\ IsNormal(args.b)

\* left shifts that bring the top significand bit of diff > 0 to 1
RECURSIVE NormShift(_)
NormShift(diff) ==
    IF diff >= Pow2(SIG_BITS - 1) THEN 0 ELSE 1 + NormShift(2 * diff)

\* C27: on normal operands of opposite effective sign, fadd_f32 returns +0
\* when the aligned significands are equal; otherwise the sign of the operand
\* of larger magnitude, the difference of the aligned significands shifted
\* left k times until its top bit is 1, the exponent exp_big - k, and a trace
\* that ends with "fadd_f32 different-sign subtract".
C27_DifferentSignSubtract ==
    DifferentSignCase =>
      LET a_big == ExpOf(args.a) >= ExpOf(args.b)
          exp_big == IF a_big THEN ExpOf(args.a) ELSE ExpOf(args.b)
          exp_small == IF a_big THEN ExpOf(args.b) ELSE ExpOf(args.a)
          sig_big == IF a_big THEN SigOf(args.a) ELSE SigOf(args.b)
          sig_small == IF a_big THEN SigOf(args.b) ELSE SigOf(args.a)
          aligned == IF exp_big - exp_small >= SIG_BITS THEN 0
                     ELSE sig_small \div Pow2(exp_big - exp_small)
          diff == Abs(sig_big - aligned)
          k == NormShift(diff)
          sign_a == SignOf(args.a)
          a_larger == \/ ExpOf(args.a) > ExpOf(args.b)
                      \/ /\ ExpOf(args.a) = ExpOf(args.b)
                         /\ FracOf(args.a) > FracOf(args.b)
      IN  IF sig_big = aligned
          THEN Val(ret.res.bits) = 0
          ELSE /\ SignOf(ret.res.bits) = (IF a_larger THEN sign_a ELSE 1 - sign_a)
               /\ ExpOf(ret.res.bits) = exp_big - k
               /\ FracOf(ret.res.bits) = (diff * Pow2(k)) % Pow2(FRAC_BITS)
               /\ ret.res.trace[Len(ret.res.trace)]
                    = "fadd_f32 different-sign subtract"

\* C28: after load_program at a 4-aligned base, and after every step that
\* executed a supported instruction from an aligned PC, the PC is a multiple
\* of 4, so that the alignment assert of the next step holds.
C28_PcAligned ==
    /\ (args.unit = "cpu" /\ pc = "loaded") => args.s.pc.lo % 4 = 0
    /\ (Stepped /\ Supported(ret.instr)) => args.s.pc.lo % 4 = 0

\* the w low bits of the number n, least significant first
RECURSIVE NatBits(_, _)
NatBits(n, w) == IF w = 0 THEN <<>> ELSE <<n % 2>> \o NatBits(n \div 2, w - 1)

\* a register value as the 32-bit Bits value the units work on
Bits32(v) == NatBits(v.lo, 16) \o NatBits(v.hi, 16)

\* the step executed this R-type or I-type instruction and wrote rd
DidOp(opcode, funct3, funct7s) ==
    /\ Stepped
    /\ OpcodeOf(ret.instr) = opcode
    /\ Funct3Of(ret.instr) = funct3
    /\ Funct7Of(ret.instr) \in funct7s
    /\ RdOf(ret.instr) # 0

\* the value written to rd, the first operand, and the second operand: rs2
\* for OP, the immediate for OP-IMM
Written == Bits32(args.s.regs[RdOf(ret.instr) + 1])
OperandX == Bits32(ret.before.regs[Rs1Of(ret.instr) + 1])
OperandY ==
    IF OpcodeOf(ret.instr) = \H33
    THEN ret.before.regs[Rs2Of(ret.instr) + 1]
    ELSE ImmI(ret.instr)

\* C29: what step writes to rd is what the bit-level units compute on 32-bit
\* vectors: alu_execute(x, y, Add) for ADD and ADDI, alu_execute(x, y, Sub)
\* for SUB, and shifter_execute(x, y & 31, Sll/Srl/Sra) for SLL/SLLI,
\* SRL/SRLI and SRA/SRAI.
C29_CpuAgreesWithUnits ==
    /\ (DidOp(\H33, 0, {\H00}) \/ DidOp(\H13, 0, 0..127)) =>
         Written = alu_execute(OperandX, Bits32(OperandY), "Add", 32).result
    /\ DidOp(\H33, 0, {\H20}) =>
         Written = alu_execute(OperandX, Bits32(OperandY), "Sub", 32).result
    /\ (DidOp(\H33, 1, {\H00}) \/ DidOp(\H13, 1, {\H00})) =>
         Written = shifter_execute(OperandX, OperandY.lo % 32, "Sll", 32)
    /\ (DidOp(\H33, 5, {\H00}) \/ DidOp(\H13, 5, {\H00})) =>
         Written = shifter_execute(OperandX, OperandY.lo % 32, "Srl", 32)
    /\ (DidOp(\H33, 5, {\H20}) \/ DidOp(\H13, 5, {\H20})) =>
         Written = shifter_execute(OperandX, OperandY.lo % 32, "Sra", 32)

\* srai x29, x1, 31 after lui x1, 0x80000: 0x80000000 becomes 0xFFFFFFFF
C29_Witness ==
    /\ DidOp(\H13, 5, {\H20})
    /\ ret.instr = Encode(\H13, 29, 5, 1, 31, \H20)
    /\ ret.before.regs[2] = [lo |-> 0, hi |-> Pow2(15)]
    /\ args.s.regs[30] = [lo |-> Half - 1, hi |-> Half - 1]
    /\ Written = shifter_execute(OperandX, 31, "Sra", 32)
    /\ Written = Fill(32, 1)

\* the operand magnitudes mdu_mul multiplies, as it decodes them
MulMag1 ==
    zero_extend(decode_i32_to_sign_and_magnitude(zero_extend(args.a, XLEN)).mag, XLEN)
MulMag2 ==
    zero_extend(decode_i32_to_sign_and_magnitude(zero_extend(args.b, XLEN)).mag, XLEN)

\* the product register at the start of step k, XLEN being the end of the
\* loop: the last XLEN - k steps are left to run
MulRegAt(k) ==
    IF k = 0 THEN MulMag2 \o Fill(XLEN, 0)
    ELSE mul_loop(MulMag2 \o Fill(XLEN, 0), MulMag1, XLEN - k, <<>>).p

\* C30: in mdu_mul's shift-add loop, for every pair of operands (the most
\* negative one, whose magnitude is 2^(XLEN-1), included): at the start of
\* every step the top bit of the product register is 0, the addition of the
\* multiplicand magnitude into the high half has no carry-out, and after the
\* last step the register is the product of the two magnitudes.
C30_MulLoopNoCarry ==
    MulDone =>
      /\ \A k \in 0..(XLEN - 1) :
           LET p == MulRegAt(k)
               hi == SubSeq(p, XLEN + 1, 2 * XLEN)
           IN  /\ ret.res.trace[k + 1] = MulSnapshot(k, p)
               /\ p[2 * XLEN] = 0
               /\ add_fixed_width(hi, MulMag1, XLEN).carry_out = 0
      /\ ret.res.trace[XLEN + 1] = MulSnapshot(XLEN, MulRegAt(XLEN))
      /\ Val(MulRegAt(XLEN)) = Val(MulMag1) * Val(MulMag2)
      /\ Val(MulMag1) = Abs(SVal(args.a))
      /\ Val(MulMag2) = Abs(SVal(args.b))

\* the most negative value times -1: the magnitude 2^(XLEN-1) is added into
\* an empty high half at the first step and fills its top bit before the shift
C30_Witness ==
    /\ MulDone
    /\ args.a = IntMinBits
    /\ args.b = Fill(XLEN, 1)
    /\ Val(MulMag1) = Pow2(XLEN - 1)
    /\ MulRegAt(0)[1] = 1
    /\ add_fixed_width(Fill(XLEN, 0), MulMag1, XLEN).sum[XLEN] = 1
    /\ Val(MulRegAt(XLEN)) = Pow2(XLEN - 1)

=============================================================================
